---- MODULE Spec2Model ----
(***************************************************************************)
(* Model of the Gemini -> OpenAI translating proxy:                        *)
(*   - the streaming response transformer of GeminiApiClient               *)
(*     (src/src/gemini/client.ts, streamContentInternal),                  *)
(*   - the thought-signature cache (src/src/gemini/signature-cache.ts),    *)
(*   - the OpenAI -> Gemini request translator (src/unnamed/part_000).     *)
(*                                                                         *)
(* Text is a sequence of one-character strings, so that indexOf, endsWith  *)
(* and substring are computed as the code computes them.  An absent        *)
(* (undefined) string field is "", which JavaScript treats as falsy        *)
(* exactly like undefined at every place the code tests such a field.      *)
(***************************************************************************)
EXTENDS Integers, Sequences, FiniteSets, TLC

\* ------------------------------------------------------------------------
\* Bounds of the model
\* ------------------------------------------------------------------------
MaxStreams == 2
MaxOtherParts == 3
MaxTextParts == 1
MaxSplitParts == 4
MaxNow == 1
MaxRoundParts == 3
MaxToolCalls == 2
MaxMessages == 4
CacheScale == 500
StoreScale == 999
MaxIds == 11
MaxKeys == 3
MaxUsage == 2
MaxHalfHours == 3
MaxIsolateParts == 3

\* ------------------------------------------------------------------------
\* Strings
\* ------------------------------------------------------------------------
Absent == <<>>
Some(x) == <<x>>
Null == << <<"null">> >>

OpenTag == <<"<", "t", "h", "i", "n", "k", "i", "n", "g", ">">>
CloseTag == <<"<", "/", "t", "h", "i", "n", "k", "i", "n", "g", ">">>

Min(a, b) == IF a < b THEN a ELSE b

\* String.prototype.substring(a, b) and substring(a), 0-based
Substring(s, a, b) == SubSeq(s, a + 1, b)
SubstringFrom(s, a) == SubSeq(s, a + 1, Len(s))

\* String.prototype.indexOf(pat): first 0-based position, -1 when absent
IndexOf(s, pat) ==
    LET hits == {i \in 0..(Len(s) - Len(pat)) : SubSeq(s, i + 1, i + Len(pat)) = pat}
    IN IF hits = {} THEN -1 ELSE CHOOSE i \in hits : \A j \in hits : i <= j

\* String.prototype.endsWith(suf)
EndsWith(s, suf) ==
    /\ Len(suf) <= Len(s)
    /\ SubSeq(s, Len(s) - Len(suf) + 1, Len(s)) = suf

\* const possibleStarts = ["<", "<t", ..., "<thinking"]
possibleStarts == [k \in 1..9 |-> SubSeq(OpenTag, 1, k)]

\* the for-loop over possibleStarts: first start the text ends with
PartialTagStart(text) ==
    LET ks == {k \in 1..9 : EndsWith(text, possibleStarts[k])}
    IN IF ks = {} THEN -1
       ELSE LET k == CHOOSE x \in ks : \A y \in ks : x <= y
            IN Len(text) - Len(possibleStarts[k])

\* ------------------------------------------------------------------------
\* Chunks
\* ------------------------------------------------------------------------
EmptyDelta ==
    [role |-> "", content |-> Absent, thinking |-> Absent,
     signature |-> "", tool_calls |-> <<>>]

\* mutant: the finish reason defaults to "stop" instead of null
createOpenAIChunk_DefaultStop(delta, finishReason) ==
    [delta |-> delta,
     finish_reason |-> IF finishReason = "null" THEN "stop" ELSE finishReason,
     usage |-> Absent]

\* createOpenAIChunk(delta, modelId, finishReason = null); usage: null
createOpenAIChunk(delta, finishReason) ==
    [delta |-> delta, finish_reason |-> finishReason, usage |-> Absent]

\* if (this.firstChunk) { delta.role = "assistant"; this.firstChunk = false; }
Framed(delta, first) ==
    IF first THEN [delta EXCEPT !.role = "assistant"] ELSE delta

\* {thinking: text}; signature added when currentThoughtSignature is truthy
ThinkingDelta(text, sig) ==
    [EmptyDelta EXCEPT !.thinking = Some(text), !.signature = sig]

ContentDelta(text) == [EmptyDelta EXCEPT !.content = Some(text)]

\* yield this.createOpenAIChunk(delta, model) with first-chunk framing,
\* on the record s of the stream's mutable state
Yield(s, delta) ==
    [s EXCEPT !.out = Append(@, createOpenAIChunk(Framed(delta, s.firstChunk), "null")),
              !.firstChunk = FALSE]

\* ------------------------------------------------------------------------
\* The <thinking> splitter: the while (text.length > 0) loop run on one
\* visible text part.  s holds firstChunk, thinkingTagBuffer,
\* insideThinkingTag, accumulatedThoughtText and the chunks yielded (out).
\* ------------------------------------------------------------------------
RECURSIVE SplitText(_, _, _)
SplitText(s, sig, text) ==
    IF Len(text) = 0 THEN s
    ELSE IF s.insideThinkingTag
    THEN LET closeIndex == IndexOf(text, CloseTag) IN
         IF closeIndex # -1
         THEN LET thinkingContent == s.thinkingTagBuffer \o Substring(text, 0, closeIndex)
                  s1 == [s EXCEPT !.thinkingTagBuffer = <<>>,
                                  !.insideThinkingTag = FALSE]
                  s2 == Yield(s1, ThinkingDelta(thinkingContent, sig))
                  s3 == [s2 EXCEPT !.accumulatedThoughtText = @ \o thinkingContent]
              IN SplitText(s3, sig, SubstringFrom(text, closeIndex + Len(CloseTag)))
         ELSE [s EXCEPT !.thinkingTagBuffer = @ \o text]
    ELSE LET openIndex == IndexOf(text, OpenTag) IN
         IF openIndex # -1
         THEN LET beforeThinking == Substring(text, 0, openIndex)
                  s1 == IF Len(beforeThinking) > 0
                        THEN Yield(s, ContentDelta(beforeThinking))
                        ELSE s
                  s2 == [s1 EXCEPT !.insideThinkingTag = TRUE]
              IN SplitText(s2, sig, SubstringFrom(text, openIndex + Len(OpenTag)))
         ELSE LET partialTagStart == PartialTagStart(text) IN
              IF partialTagStart # -1
              THEN LET safeContent == Substring(text, 0, partialTagStart)
                       s1 == IF Len(safeContent) > 0
                             THEN Yield(s, ContentDelta(safeContent))
                             ELSE s
                   IN [s1 EXCEPT !.thinkingTagBuffer = SubstringFrom(text, partialTagStart)]
              ELSE LET text2 == IF Len(s.thinkingTagBuffer) > 0
                                THEN s.thinkingTagBuffer \o text
                                ELSE text
                       s1 == [s EXCEPT !.thinkingTagBuffer = <<>>]
                   IN Yield(s1, ContentDelta(text2))

\* ------------------------------------------------------------------------
\* Signature cache (SignatureCache): an in-memory L1 front, a Map kept in
\* insertion order, modelled as a sequence of entries, and the durable
\* table `signatures`, modelled as a set of rows keyed by tool_call_id.
\* The two capacities are divided by CacheScale and StoreScale so that both evictions can
\* occur within the bounds of the model.
\* ------------------------------------------------------------------------
L1_CACHE_SIZE == 1000 \div CacheScale
MAX_CACHE_SIZE == 10000 \div StoreScale
CACHE_EXPIRY_MS == 60 * 60 * 1000
CLEANUP_INTERVAL_MS == 10 * 60 * 1000
\* the clock advances in steps of seven sweep intervals, past one expiry time
TickMs == 7 * CLEANUP_INTERVAL_MS

\* mutant: the thought text is not kept with the signature
CachedSignature_NoThoughtText(id, signature, thoughtText, timestamp) ==
    [tool_call_id |-> id, signature |-> signature,
     thoughtText |-> <<>>, timestamp |-> timestamp]

CachedSignature(id, signature, thoughtText, timestamp) ==
    [tool_call_id |-> id, signature |-> signature,
     thoughtText |-> thoughtText, timestamp |-> timestamp]

L1Has(l1, id) == \E i \in 1..Len(l1) : l1[i].tool_call_id = id
L1Get(l1, id) == l1[CHOOSE i \in 1..Len(l1) : l1[i].tool_call_id = id]

\* Map.set: an existing key keeps its position, a new key goes last
L1Set_KeepValue(l1, e) == IF L1Has(l1, e.tool_call_id) THEN l1 ELSE Append(l1, e)
L1Set(l1, e) ==
    IF L1Has(l1, e.tool_call_id)
    THEN [i \in 1..Len(l1) |->
            IF l1[i].tool_call_id = e.tool_call_id THEN e ELSE l1[i]]
    ELSE Append(l1, e)

\* if (l1Cache.size >= L1_CACHE_SIZE) delete the first key, if (firstKey):
\* not when there is none, and not when it is the empty string, which is
\* falsy; ids are numbers here and 0 stands for the empty string
L1Evict(l1) ==
    IF Len(l1) >= L1_CACHE_SIZE /\ l1 # <<>> /\ l1[1].tool_call_id # 0
    THEN Tail(l1) ELSE l1

\* stmtDeleteOldest: ORDER BY timestamp ASC LIMIT n leaves the order of
\* rows with equal timestamps open, so every choice of n oldest rows counts
stmtDeleteOldest_Nothing(d, n) == {{}}
stmtDeleteOldest(d, n) ==
    LET k == Min(n, Cardinality(d))
    IN {V \in SUBSET d :
          /\ Cardinality(V) = k
          /\ \A v \in V : \A r \in d \ V : v.timestamp <= r.timestamp}

\* stmtInsert: INSERT OR REPLACE
stmtInsert(d, e) == {r \in d : r.tool_call_id # e.tool_call_id} \cup {e}

\* store(toolCallId, signature, thoughtText): the possible results
store(l1, d, id, signature, thoughtText, ts) ==
    LET e == CachedSignature(id, signature, thoughtText, ts)
        l1b == L1Set(L1Evict(l1), e)
        victims == IF Cardinality(d) >= MAX_CACHE_SIZE
                   THEN stmtDeleteOldest(d, MAX_CACHE_SIZE \div 10)
                   ELSE {{}}
    IN {[l1 |-> l1b, db |-> stmtInsert(d \ V, e)] : V \in victims}

\* stmtGet
stmtGet(d, id) == {r \in d : r.tool_call_id = id}

\* get(toolCallId): found, the entry returned and the L1 front afterwards
get(l1, d, id) ==
    IF L1Has(l1, id)
    THEN [found |-> TRUE, entry |-> L1Get(l1, id), l1 |-> l1]
    ELSE IF stmtGet(d, id) = {}
    THEN [found |-> FALSE, entry |-> CachedSignature(id, "", <<>>, 0), l1 |-> l1]
    ELSE LET row == CHOOSE r \in stmtGet(d, id) : TRUE
         IN [found |-> TRUE, entry |-> row, l1 |-> L1Set(L1Evict(l1), row)]

\* has(toolCallId)
has(l1, d, id) == L1Has(l1, id) \/ stmtGet(d, id) # {}

\* size: SELECT COUNT(*)
size(d) == Cardinality(d)

\* clear(): both tiers emptied
clear == [l1 |-> <<>>, db |-> {}]

\* mutant: an entry expires when it is exactly one hour old
cleanup_AtExpiry(l1, d, t) ==
    LET expiryTime == t - CACHE_EXPIRY_MS
    IN [l1 |-> SelectSeq(l1, LAMBDA e : ~(e.timestamp <= expiryTime)),
        db |-> {r \in d : ~(r.timestamp <= expiryTime)}]

\* cleanup(): drop the entries with timestamp < now - CACHE_EXPIRY_MS
cleanup(l1, d, t) ==
    LET expiryTime == t - CACHE_EXPIRY_MS
    IN [l1 |-> SelectSeq(l1, LAMBDA e : ~(e.timestamp < expiryTime)),
        db |-> {r \in d : ~(r.timestamp < expiryTime)}]

\* a restart of the process: new SignatureCache() on the table left in the
\* file, with the cleanup() of the constructor
restart_InMemory(d, t) == [l1 |-> <<>>, db |-> {}]
restart(d, t) == [l1 |-> <<>>, db |-> cleanup(<<>>, d, t).db]

\* ------------------------------------------------------------------------
\* parseSSEStream
\* ------------------------------------------------------------------------
\* buffer.split("\n"): the segments between the newlines, at least one
RECURSIVE Split(_)
Split(buf) ==
    LET nl == IndexOf(buf, <<"\n">>)
    IN IF nl = -1 THEN <<buf>>
       ELSE <<Substring(buf, 0, nl)>> \o Split(SubstringFrom(buf, nl + 1))

\* String.prototype.trim on the blank " "
RECURSIVE TrimStart(_)
TrimStart(t) == IF t # <<>> /\ Head(t) = " " THEN TrimStart(Tail(t)) ELSE t
RECURSIVE TrimEnd(_)
TrimEnd(t) ==
    IF t # <<>> /\ t[Len(t)] = " " THEN TrimEnd(SubSeq(t, 1, Len(t) - 1)) ELSE t
Trim(t) == TrimEnd(TrimStart(t))

\* String.prototype.startsWith(pre)
StartsWith(t, pre) == Len(pre) <= Len(t) /\ SubSeq(t, 1, Len(pre)) = pre

DataPrefix == <<"d", "a", "t", "a", ":", " ">>

\* JSON.parse(payload) succeeds: the payloads are written with digits, which
\* make a JSON number, and with the letter x, which makes no JSON text
JSONValid(payload) ==
    /\ payload # <<>>
    /\ \A i \in 1..Len(payload) : payload[i] \in {"1", "2"}

\* the parser before its first read
NoParse ==
    [pc |-> "idle", pending |-> <<>>, read |-> <<>>, buffer |-> <<>>,
     objectBuffer |-> <<>>, out |-> <<>>]

\* try { yield JSON.parse(objectBuffer) } catch (e) { log }
Parsed(st) ==
    IF JSONValid(st.objectBuffer) THEN [st EXCEPT !.out = Append(@, st.objectBuffer)] ELSE st

\* mutant: the accumulator is kept when the parse fails
BlankLine_KeepOnError(st) ==
    IF st.objectBuffer # <<>>
    THEN IF JSONValid(st.objectBuffer)
         THEN [Parsed(st) EXCEPT !.objectBuffer = <<>>]
         ELSE st
    ELSE st

\* a blank line (lines 562-570): parse and yield the accumulator, reset it
BlankLine(st) ==
    IF st.objectBuffer # <<>>
    THEN [Parsed(st) EXCEPT !.objectBuffer = <<>>]
    ELSE st

\* the body of for (const line of lines) (lines 561-574)
RECURSIVE Lines(_, _)
Lines(st, lines) ==
    IF lines = <<>> THEN st
    ELSE LET line == Head(lines)
             next == IF Trim(line) = <<>> THEN BlankLine(st)
                     ELSE IF StartsWith(line, DataPrefix)
                     THEN [st EXCEPT !.objectBuffer = @ \o SubstringFrom(line, 6)]
                     ELSE st
         IN Lines(next, Tail(lines))

\* one read that is not done (lines 557-575): buffer += value; the last
\* segment stays in the buffer, the lines before it are processed
Chunked(st, value) ==
    LET lines == Split(st.buffer \o value)
    IN Lines([st EXCEPT !.buffer = lines[Len(lines)]],
             SubSeq(lines, 1, Len(lines) - 1))

\* the read that is done (lines 550-559): one final parse of the accumulator
Finished(st) == [Parsed(st) EXCEPT !.pc = "done"]

\* ------------------------------------------------------------------------
\* State
\* ------------------------------------------------------------------------
VARIABLES
    pc,                       \* "idle", "streaming" or "done": position of streamContentInternal
    firstChunk,               \* GeminiApiClient.firstChunk
    toolCallId,               \* local of streamContentInternal; 0 is undefined
    currentThoughtSignature,  \* local; "" is undefined
    accumulatedThoughtText,   \* local
    thinkingTagBuffer,        \* local
    insideThinkingTag,        \* local
    chunks,                   \* the chunks yielded by the current stream
    pending,                  \* upstream: visible text not yet delivered
    textParts,                \* upstream: visible text parts delivered so far, all streams
    otherParts,               \* upstream: thought and functionCall parts delivered so far
    delivered,                \* history: visible text delivered in the current stream
    partsSeen,                \* history: kind and signature of each part of the current stream
    minted,                   \* history: id and position in partsSeen of each functionCall part
    streamNo,                 \* number of streamContent calls made so far
    nextUuid,                 \* crypto.randomUUID(): the next fresh id
    l1Cache,                  \* SignatureCache.l1Cache
    db,                       \* SignatureCache.db, table signatures
    now,                      \* Date.now()
    xin,                      \* the last translator call: its messages and the cache it read
    xout,                     \* what that call returned
    issued,                   \* history: the (id, signature, thought text) given to store
    cin,                      \* the last client call: operation, model, upstream responses
    cout,                     \* what that call did: its POSTs, errors, fallbacks, outcome
    googleCloudProject,       \* GeminiApiClient.googleCloudProject; "" is undefined
    projectId,                \* GeminiApiClient.projectId; "" is null
    disc,                     \* discoverProjectId: position, retryCount, calls, outcome
    probe,                    \* the last signature cache call and what it returned
    usageData,                \* local of streamContentInternal; Absent is undefined
    usageSeen,                \* the usageMetadata of the envelopes read so far
    sse,                      \* parseSSEStream: position, bytes to come and read, buffer, objectBuffer, envelopes yielded
    other,                    \* the locals, chunks and history of a second, suspended streamContentInternal call
    callers                   \* two concurrent discoverProjectId calls: positions, retryCounts, results, loadCodeAssist calls

streamVars ==
    <<pc, firstChunk, toolCallId, currentThoughtSignature, accumulatedThoughtText,
      thinkingTagBuffer, insideThinkingTag, chunks, pending, textParts, otherParts,
      delivered, partsSeen, minted, streamNo, nextUuid>>
cacheVars == <<l1Cache, db, now>>
xlateVars == <<xin, xout>>
clientVars == <<cin, cout, googleCloudProject, projectId, disc>>
usageVars == <<usageData, usageSeen>>
taskVars == <<other, callers>>
vars == <<streamVars, cacheVars, xlateVars, issued, clientVars, probe, usageVars, sse, taskVars>>

Signatures == {"", "S1", "S2"}
ThoughtTexts == {<<"x">>}
FunctionNames == {"f"}

\* visible texts the upstream may send, cut into parts at any positions
SplitTexts ==
    { <<"a">> \o OpenTag \o <<"b">> \o CloseTag \o <<"c">>,
      <<"a", "<", "c", "<">>,
      <<"a", "<">> \o OpenTag \o <<"b">> \o CloseTag,
      OpenTag \o <<"b">> }
StreamTexts == { <<>>, <<"a", "<">> }

\* ------------------------------------------------------------------------
\* streamContentInternal
\* ------------------------------------------------------------------------
\* the call: response.ok, the locals are initialised (lines 280-290)
StartStream(texts) ==
    /\ pc \in {"idle", "done"}
    /\ streamNo < MaxStreams
    /\ pc' = "streaming"
    /\ toolCallId' = 0
    /\ currentThoughtSignature' = ""
    /\ accumulatedThoughtText' = <<>>
    /\ thinkingTagBuffer' = <<>>
    /\ insideThinkingTag' = FALSE
    /\ chunks' = <<>>
    /\ \E t \in texts : pending' = t
    /\ delivered' = <<>>
    /\ partsSeen' = <<>>
    /\ minted' = <<>>
    /\ streamNo' = streamNo + 1
    /\ usageData' = Absent
    /\ usageSeen' = <<>>
    /\ UNCHANGED <<firstChunk, textParts, otherParts, nextUuid, cacheVars, xlateVars,
                   clientVars, probe, issued, sse, taskVars>>

\* new GeminiApiClient(...): firstChunk = true
NewClient ==
    /\ pc = "done"
    /\ streamNo < MaxStreams
    /\ ~firstChunk
    /\ firstChunk' = TRUE
    /\ UNCHANGED <<pc, toolCallId, currentThoughtSignature, accumulatedThoughtText,
                   thinkingTagBuffer, insideThinkingTag, chunks, pending, textParts,
                   otherParts, delivered, partsSeen, minted, streamNo, nextUuid,
                   cacheVars, xlateVars, clientVars, probe, usageVars, sse, taskVars, issued>>

\* mutant: only the first thought signature of a stream is kept
CaptureThoughtSignature_KeepFirst(cur, sig) == IF sig # "" /\ cur = "" THEN sig ELSE cur

\* const sig = thought_signature || thoughtSignature;
\* if (sig) currentThoughtSignature = sig            (lines 320-324)
CaptureThoughtSignature(cur, sig) == IF sig # "" THEN sig ELSE cur

\* mutant: the signature of a functionCall part replaces the current one
CaptureFunctionCallSignature_Override(cur, funcSig) == IF funcSig # "" THEN funcSig ELSE cur

\* if (funcSig && !currentThoughtSignature) currentThoughtSignature = funcSig
CaptureFunctionCallSignature(cur, funcSig) ==
    IF funcSig # "" /\ cur = "" THEN funcSig ELSE cur

\* a text part with thought === true (lines 313-346)
ThoughtPart ==
    /\ pc = "streaming"
    /\ otherParts < MaxOtherParts
    /\ \E thinkingText \in ThoughtTexts, sig \in Signatures :
         LET cur == CaptureThoughtSignature(currentThoughtSignature, sig)
             s == Yield([firstChunk |-> firstChunk, out |-> chunks],
                        ThinkingDelta(thinkingText, cur))
         IN /\ currentThoughtSignature' = cur
            /\ accumulatedThoughtText' = accumulatedThoughtText \o thinkingText
            /\ firstChunk' = s.firstChunk
            /\ chunks' = s.out
            /\ partsSeen' = Append(partsSeen, [kind |-> "thought", sig |-> sig])
    /\ otherParts' = otherParts + 1
    /\ UNCHANGED <<pc, toolCallId, thinkingTagBuffer, insideThinkingTag, pending,
                   textParts, delivered, minted, streamNo, nextUuid,
                   cacheVars, xlateVars, clientVars, probe, usageVars, sse, taskVars, issued>>

\* a text part without thought: the next n characters of the visible text
\* (lines 347-451)
TextPart(maxParts) ==
    /\ pc = "streaming"
    /\ textParts < maxParts
    /\ \E n \in 1..Len(pending) :
         LET text == SubSeq(pending, 1, n)
             s == SplitText([firstChunk |-> firstChunk,
                             thinkingTagBuffer |-> thinkingTagBuffer,
                             insideThinkingTag |-> insideThinkingTag,
                             accumulatedThoughtText |-> accumulatedThoughtText,
                             out |-> chunks],
                            currentThoughtSignature, text)
         IN /\ firstChunk' = s.firstChunk
            /\ thinkingTagBuffer' = s.thinkingTagBuffer
            /\ insideThinkingTag' = s.insideThinkingTag
            /\ accumulatedThoughtText' = s.accumulatedThoughtText
            /\ chunks' = s.out
            /\ pending' = SubSeq(pending, n + 1, Len(pending))
            /\ delivered' = delivered \o text
    /\ partsSeen' = Append(partsSeen, [kind |-> "text", sig |-> ""])
    /\ textParts' = textParts + 1
    /\ UNCHANGED <<pc, toolCallId, currentThoughtSignature, otherParts,
                   minted, streamNo, nextUuid, cacheVars, xlateVars, clientVars, probe, usageVars, sse, taskVars, issued>>

\* delta of a tool call (lines 477-493)
ToolCallDelta(id, name, first) ==
    LET d == [EmptyDelta EXCEPT
                !.tool_calls = <<[index |-> 0, id |-> id, type |-> "function",
                                  name |-> name]>>]
    IN IF first THEN [d EXCEPT !.role = "assistant", !.content = Null] ELSE d

\* a functionCall part (lines 453-496)
FunctionCallPart ==
    /\ pc = "streaming"
    /\ otherParts < MaxOtherParts
    /\ \E name \in FunctionNames, funcSig \in Signatures :
         LET cur == CaptureFunctionCallSignature(currentThoughtSignature, funcSig)
             id == nextUuid
         IN /\ currentThoughtSignature' = cur
            /\ toolCallId' = id
            /\ IF cur # ""
               THEN /\ \E r \in store(l1Cache, db, id, cur, accumulatedThoughtText, now) :
                          /\ l1Cache' = r.l1
                          /\ db' = r.db
                    /\ issued' = issued \cup {[id |-> id, signature |-> cur,
                                                thoughtText |-> accumulatedThoughtText]}
               ELSE UNCHANGED <<l1Cache, db, issued>>
            /\ chunks' = Append(chunks,
                                createOpenAIChunk(ToolCallDelta(id, name, firstChunk), "null"))
            /\ partsSeen' = Append(partsSeen, [kind |-> "functionCall", sig |-> funcSig])
            /\ minted' = Append(minted, [id |-> id, pos |-> Len(partsSeen) + 1])
    /\ firstChunk' = FALSE
    /\ nextUuid' = nextUuid + 1
    /\ otherParts' = otherParts + 1
    /\ UNCHANGED <<pc, accumulatedThoughtText, thinkingTagBuffer, insideThinkingTag,
                   pending, textParts, delivered, streamNo, now, xlateVars, clientVars, probe, usageVars, sse, taskVars>>

\* mutant: the tool calls of the stream are forgotten
FinishReason_AlwaysStop(id) == "stop"

\* const finishReason = toolCallId ? "tool_calls" : "stop"
FinishReason(id) == IF id # 0 THEN "tool_calls" ELSE "stop"

\* mutant: the counts of the first usageMetadata are kept
UsageOf_KeepFirst(cur, usage) ==
    IF cur # Absent THEN cur
    ELSE LET prompt_tokens == IF usage.promptTokenCount = Absent THEN 0
                              ELSE usage.promptTokenCount[1]
             completion_tokens == IF usage.candidatesTokenCount = Absent THEN 0
                                  ELSE usage.candidatesTokenCount[1]
         IN Some([prompt_tokens |-> prompt_tokens,
                  completion_tokens |-> completion_tokens,
                  total_tokens |-> prompt_tokens + completion_tokens])

\* usageData = {prompt_tokens: promptTokenCount ?? 0, completion_tokens:
\* candidatesTokenCount ?? 0, total_tokens: their sum}      (lines 500-509)
UsageOf(cur, usage) ==
    LET prompt_tokens == IF usage.promptTokenCount = Absent THEN 0
                         ELSE usage.promptTokenCount[1]
        completion_tokens == IF usage.candidatesTokenCount = Absent THEN 0
                             ELSE usage.candidatesTokenCount[1]
    IN Some([prompt_tokens |-> prompt_tokens,
             completion_tokens |-> completion_tokens,
             total_tokens |-> prompt_tokens + completion_tokens])

\* the end of an envelope that carries response.usageMetadata (lines 500-509)
UsageMetadata ==
    /\ pc = "streaming"
    /\ Len(usageSeen) < MaxUsage
    /\ \E p \in {Absent, Some(1)}, c \in {Absent, Some(2)} :
         LET usage == [promptTokenCount |-> p, candidatesTokenCount |-> c]
         IN /\ usageData' = UsageOf(usageData, usage)
            /\ usageSeen' = Append(usageSeen, usage)
    /\ UNCHANGED <<streamVars, cacheVars, xlateVars, clientVars, probe, issued, sse, taskVars>>

\* if (usageData) finalChunk.usage = usageData            (lines 516-518)
WithUsage(chunk, usage) == IF usage # Absent THEN [chunk EXCEPT !.usage = usage] ELSE chunk

\* the envelope sequence is exhausted: the final chunk (lines 512-520)
EndStream ==
    /\ pc = "streaming"
    /\ chunks' = Append(chunks, WithUsage(createOpenAIChunk(EmptyDelta, FinishReason(toolCallId)),
                                          usageData))
    /\ pc' = "done"
    /\ UNCHANGED <<firstChunk, toolCallId, currentThoughtSignature, accumulatedThoughtText,
                   thinkingTagBuffer, insideThinkingTag, pending, textParts, otherParts,
                   delivered, partsSeen, minted, streamNo, nextUuid, cacheVars, xlateVars, clientVars, probe, usageVars, sse, taskVars, issued>>

\* the generator returns after its final chunk was taken: its locals go out
\* of scope (line 521)
Return ==
    /\ pc = "done"
    /\ pc' = "idle"
    /\ toolCallId' = 0
    /\ currentThoughtSignature' = ""
    /\ accumulatedThoughtText' = <<>>
    /\ thinkingTagBuffer' = <<>>
    /\ insideThinkingTag' = FALSE
    /\ chunks' = <<>>
    /\ pending' = <<>>
    /\ delivered' = <<>>
    /\ partsSeen' = <<>>
    /\ minted' = <<>>
    /\ usageData' = Absent
    /\ usageSeen' = <<>>
    /\ UNCHANGED <<firstChunk, textParts, otherParts, streamNo, nextUuid,
                   cacheVars, xlateVars, clientVars, probe, issued, sse, taskVars>>

\* ------------------------------------------------------------------------
\* Request translator (OpenAI -> Gemini)
\*
\* A ChatMessage is a record
\*   [role, content, tool_calls, tool_call_id,
\*    thinking, signature, cot_id, cot_summary, reasoning_opaque, reasoning_text]
\* content is [kind |-> "string", text |-> t], [kind |-> "parts", parts |-> ps]
\* or [kind |-> "other"]; tool_calls is Absent or Some(list of tool calls);
\* a tool call is [id, type, name, arguments] where arguments is "json" for a
\* string that JSON.parse accepts and "garbage" for one it rejects.
\* ------------------------------------------------------------------------
StringContent(t) == [kind |-> "string", text |-> t, parts |-> <<>>]
PartsContent(ps) == [kind |-> "parts", text |-> <<>>, parts |-> ps]
OtherContent == [kind |-> "other", text |-> <<>>, parts |-> <<>>]
TextContentPart(t) == [type |-> "text", text |-> t, dataUrl |-> FALSE]
ImageContentPart(isData) == [type |-> "image_url", text |-> <<>>, dataUrl |-> isData]

ToolCall(id, name, arguments) ==
    [id |-> id, type |-> "function", name |-> name, arguments |-> arguments]

ChatMessage(role, content) ==
    [role |-> role, content |-> content, tool_calls |-> Absent, tool_call_id |-> 0,
     thinking |-> <<>>, signature |-> "", cot_id |-> "", cot_summary |-> <<>>,
     reasoning_opaque |-> "", reasoning_text |-> <<>>]

\* Gemini parts
NoPart ==
    [kind |-> "", text |-> <<>>, thought |-> FALSE, thought_signature |-> "",
     name |-> "", response |-> OtherContent, json |-> FALSE]
TextPartG(t) == [NoPart EXCEPT !.kind = "text", !.text = t]
ThoughtPartG(t, sig) ==
    [NoPart EXCEPT !.kind = "text", !.text = t, !.thought = TRUE, !.thought_signature = sig]
FunctionCallPartG(name, sig) ==
    [NoPart EXCEPT !.kind = "functionCall", !.name = name, !.thought_signature = sig]
\* result: the content itself when it is a string, else JSON.stringify of it
FunctionResponsePartG(name, content) ==
    [NoPart EXCEPT !.kind = "functionResponse", !.name = name, !.response = content,
                   !.json = (content.kind # "string")]
InlineDataPartG == [NoPart EXCEPT !.kind = "inlineData"]

\* const isSystemMessage = (message) => role is "system" or "developer"
isSystemMessage(message) == message.role = "system" \/ message.role = "developer"

\* content.filter(type === "text").reduce((prev, next) => prev + next.text, "")
RECURSIVE ReduceText(_)
ReduceText(ps) ==
    IF ps = <<>> THEN <<>>
    ELSE IF Head(ps).type = "text" THEN Head(ps).text \o ReduceText(Tail(ps))
    ELSE ReduceText(Tail(ps))

\* mapSystemInstruction: messages.find(isSystemMessage), then its text;
\* Absent stands for undefined
mapSystemInstruction(messages) ==
    LET idx == {i \in 1..Len(messages) : isSystemMessage(messages[i])}
    IN IF idx = {} THEN Absent
       ELSE LET systemMessage == messages[CHOOSE i \in idx : \A j \in idx : i <= j]
            IN IF systemMessage.content.kind = "string"
               THEN Some(systemMessage.content.text)
               ELSE IF systemMessage.content.kind = "parts"
               THEN Some(ReduceText(systemMessage.content.parts))
               ELSE Absent

\* content.match(/<thinking(?:\s+signature="[^"]*")?>([\s\S]*?)<\/thinking>/):
\* the texts of the model hold no double quote, so the tag has no attribute.
\* The leftmost match starts at the first "<thinking>" and ends with the
\* first "</thinking>" after it.
thinkingMatch(content) ==
    LET Match(open) ==
            LET rest == SubstringFrom(content, open + Len(OpenTag))
                Cut(close) ==
                    IF open = -1 \/ close = -1
                    THEN [matched |-> FALSE, group |-> <<>>, stripped |-> content]
                    ELSE [matched |-> TRUE,
                          group |-> Substring(rest, 0, close),
                          stripped |-> Trim(Substring(content, 0, open)
                                            \o SubstringFrom(rest, close + Len(CloseTag)))]
            IN Cut(IF open = -1 THEN -1 ELSE IndexOf(rest, CloseTag))
    IN Match(IndexOf(content, OpenTag))

\* a || b || c on strings and texts: the first that is not empty
Or3(a, b, c, empty) == IF a # empty THEN a ELSE IF b # empty THEN b ELSE c

\* mutant: the signature of the message wins over the cached one
CachedTakesPrecedence_OwnFirst(hit, cachedSignature, thoughtSignature) ==
    IF hit # 0 /\ thoughtSignature = "" THEN cachedSignature ELSE thoughtSignature

\* if (cached) thoughtSignature = cached.signature: the cache takes
\* precedence if available (lines 165-167)
CachedTakesPrecedence(hit, cachedSignature, thoughtSignature) ==
    IF hit # 0 THEN cachedSignature ELSE thoughtSignature

\* mutant: the loop does not break, the last tool call the cache knows wins
FirstCached_LastHit(toolCalls, l1, d) ==
    LET hits == {i \in 1..Len(toolCalls) : has(l1, d, toolCalls[i].id)}
    IN IF hits = {} THEN 0 ELSE CHOOSE i \in hits : \A j \in hits : j <= i

\* the loop over msg.tool_calls that asks the cache (lines 160-175):
\* index of the first tool call whose id the cache knows, 0 when none
FirstCached(toolCalls, l1, d) ==
    LET hits == {i \in 1..Len(toolCalls) : has(l1, d, toolCalls[i].id)}
    IN IF hits = {} THEN 0 ELSE CHOOSE i \in hits : \A j \in hits : i <= j

\* the functionCall parts of an assistant message (lines 198-210)
RECURSIVE FunctionCallParts(_, _)
FunctionCallParts(toolCalls, sig) ==
    IF toolCalls = <<>> THEN <<>>
    ELSE IF Head(toolCalls).type = "function"
    THEN <<FunctionCallPartG(Head(toolCalls).name, sig)>> \o FunctionCallParts(Tail(toolCalls), sig)
    ELSE FunctionCallParts(Tail(toolCalls), sig)

\* the parts of a user message given as a parts list (lines 222-247)
RECURSIVE UserParts(_)
UserParts(ps) ==
    IF ps = <<>> THEN <<>>
    ELSE LET c == Head(ps)
             here == IF c.type = "text"
                     THEN <<TextPartG(IF EndsWith(c.text, <<"\n">>)
                                      THEN c.text ELSE c.text \o <<"\n">>)>>
                     ELSE IF c.type = "image_url" /\ c.dataUrl
                     THEN <<InlineDataPartG>>
                     ELSE <<>>
         IN here \o UserParts(Tail(ps))

\* mapOpenAIMessageToGeminiFormat(msg): the turn, whether JSON.parse threw,
\* and the L1 front after the cache lookups
mapOpenAIMessageToGeminiFormat(msg, l1, d) ==
    LET role == IF msg.role = "assistant" THEN "model" ELSE "user" IN
    IF msg.role = "tool"
    THEN [throws |-> FALSE, l1 |-> l1,
          turn |-> [role |-> "user",
                    parts |-> <<FunctionResponsePartG("unknown", msg.content)>>]]
    ELSE IF msg.role = "assistant"
    THEN LET content0 == IF msg.content.kind = "string" THEN msg.content.text ELSE <<>>
             toolCalls == IF msg.tool_calls = Absent THEN <<>> ELSE msg.tool_calls[1]
             sig0 == Or3(msg.signature, msg.cot_id, msg.reasoning_opaque, "")
             text0 == Or3(msg.thinking, msg.cot_summary, msg.reasoning_text, <<>>)
             \* JSON.parse throws on the arguments of some tool call
             bad == \E i \in 1..Len(toolCalls) :
                       toolCalls[i].type = "function" /\ toolCalls[i].arguments # "json"
             \* hit: the tool call the cache knew, cached: what get returned for
             \* it, m: the match of the thinking block in the content
             Turn(hit, cached, m) ==
                 LET sig1 == CachedTakesPrecedence(hit, cached.entry.signature, sig0)
                     text1 == IF hit # 0 /\ text0 = <<>>
                              THEN cached.entry.thoughtText ELSE text0
                     text2 == IF m.matched /\ text1 = <<>> THEN m.group ELSE text1
                     content == m.stripped
                     parts == (IF text2 # <<>> THEN <<ThoughtPartG(text2, sig1)>> ELSE <<>>)
                              \o (IF content # <<>> THEN <<TextPartG(content)>> ELSE <<>>)
                              \o FunctionCallParts(toolCalls, sig1)
                 IN [throws |-> bad,
                     l1 |-> cached.l1,
                     turn |-> [role |-> "model", parts |-> IF bad THEN <<>> ELSE parts]]
             Lookup(hit) ==
                 Turn(hit,
                      IF hit # 0 THEN get(l1, d, toolCalls[hit].id)
                      ELSE [found |-> FALSE, entry |-> CachedSignature(0, "", <<>>, 0),
                            l1 |-> l1],
                      thinkingMatch(content0))
         IN Lookup(FirstCached(toolCalls, l1, d))
    ELSE IF msg.content.kind = "string"
    THEN [throws |-> FALSE, l1 |-> l1,
          turn |-> [role |-> role, parts |-> <<TextPartG(msg.content.text)>>]]
    ELSE IF msg.content.kind = "parts"
    THEN [throws |-> FALSE, l1 |-> l1,
          turn |-> [role |-> role, parts |-> UserParts(msg.content.parts)]]
    ELSE [throws |-> FALSE, l1 |-> l1,
          turn |-> [role |-> role, parts |-> <<TextPartG(<<"String(content)">>)>>]]

\* the assistant message that triggered a run of tool messages (lines 270-277):
\* index of the nearest message at or before position j that is an assistant
\* message with a tool_calls field, 0 when there is none
RECURSIVE FindAssistant(_, _)
FindAssistant(messages, j) ==
    IF j < 1 THEN 0
    ELSE IF messages[j].role = "assistant" /\ messages[j].tool_calls # Absent
    THEN j
    ELSE FindAssistant(messages, j - 1)

\* assistantMessage?.tool_calls?.find(tc => tc.id === toolCallId)?.function.name ?? "unknown"
ToolCallName(messages, a, id) ==
    IF a = 0 THEN "unknown"
    ELSE LET tcs == messages[a].tool_calls[1]
             hits == {k \in 1..Len(tcs) : tcs[k].id = id}
         IN IF hits = {} THEN "unknown"
            ELSE tcs[CHOOSE k \in hits : \A m \in hits : k <= m].name

\* mutant: the run of tool messages is not collected
ToolRunEnd_NoCoalesce(messages, i) == i

\* last index of the run of tool messages that starts at i (lines 264-268)
RECURSIVE ToolRunEnd(_, _)
ToolRunEnd(messages, i) ==
    IF i + 1 <= Len(messages) /\ messages[i + 1].role = "tool"
    THEN ToolRunEnd(messages, i + 1)
    ELSE i

\* mapOpenAIMessagesToGeminiFormat: the for loop from index i on, with the
\* turns built so far in acc
RECURSIVE MapFrom(_, _, _, _, _)
MapFrom(messages, i, acc, l1, d) ==
    IF i > Len(messages) THEN [throws |-> FALSE, contents |-> acc, l1 |-> l1]
    ELSE IF messages[i].role = "tool"
    THEN LET last == ToolRunEnd(messages, i)
             a == FindAssistant(messages, i - 1)
             parts == [k \in 1..(last - i + 1) |->
                         FunctionResponsePartG(
                             ToolCallName(messages, a, messages[i + k - 1].tool_call_id),
                             messages[i + k - 1].content)]
         IN MapFrom(messages, last + 1,
                    Append(acc, [role |-> "user", parts |-> parts]), l1, d)
    ELSE LET Push(r) ==
                 IF r.throws THEN [throws |-> TRUE, contents |-> <<>>, l1 |-> r.l1]
                 ELSE MapFrom(messages, i + 1, Append(acc, r.turn), r.l1, d)
         IN Push(mapOpenAIMessageToGeminiFormat(messages[i], l1, d))

mapOpenAIMessagesToGeminiFormat(messages, l1, d) == MapFrom(messages, 1, <<>>, l1, d)

\* THINKING_MODELS (lines 12-16)
THINKING_MODELS == {"gemini-3-pro-preview", "gemini-2.5-pro", "gemini-2.5-flash"}

\* mapModelToGemini: the model table; an unknown name gives the primary
\* thinking model
mapModelToGemini(model) ==
    IF model \in THINKING_MODELS \cup {"gemini-2.5-flash-lite"}
    THEN model ELSE "gemini-3-pro-preview"

\* a ChatCompletionRequest: reasoning_effort is Absent or Some(string);
\* reasoning is Absent or Some(effort) with effort Absent or Some(string);
\* tool_choice is Absent or Some([kind, function]) where kind is "none",
\* "auto", another string, or "object", and function is Absent or
\* Some(name), the name "" standing for an object without a name
ChatCompletionRequest(messages) ==
    [model |-> "gemini-2.5-pro", messages |-> messages, reasoning_effort |-> Absent,
     reasoning |-> Absent, tool_choice |-> Absent]
ToolChoice(kind, function) == Some([kind |-> kind, function |-> function])

\* thinkingBudgetMap (lines 320-324)
thinkingBudgetMap == [low |-> 1024, medium |-> 8192, high |-> 24576]

\* getThinkingConfig(reasoningEffort), Absent for undefined.
\* `reasoningEffort in thinkingBudgetMap` also holds of the property names
\* the object literal inherits from Object.prototype; thinkingBudgetMap[key]
\* is then a function and no number, written 0 - 1 here
getThinkingConfig(effort) ==
    IF effort = Absent \/ effort = Some("") THEN Absent
    ELSE IF effort[1] \in DOMAIN thinkingBudgetMap
    THEN Some([thinkingBudget |-> thinkingBudgetMap[effort[1]], includeThoughts |-> TRUE])
    ELSE IF effort[1] \in {"toString", "constructor"}
    THEN Some([thinkingBudget |-> 0 - 1, includeThoughts |-> TRUE])
    ELSE Absent

\* request.reasoning_effort ?? request.reasoning?.effort (line 23)
ReasoningEffortOf(request) ==
    IF request.reasoning_effort # Absent THEN request.reasoning_effort
    ELSE IF request.reasoning = Absent THEN Absent
    ELSE request.reasoning[1]

\* generationConfig.thinkingConfig (lines 43-60)
ThinkingConfigOf(model, effort) ==
    IF model \in THINKING_MODELS
    THEN IF getThinkingConfig(effort) # Absent THEN getThinkingConfig(effort)
         ELSE Some([thinkingBudget |-> 8192, includeThoughts |-> TRUE])
    ELSE IF effort # Absent /\ effort # Some("")
    THEN getThinkingConfig(effort)
    ELSE Absent

\* mapToolChoiceToToolConfig (lines 97-114): toolChoice.function.name throws
\* a TypeError on an object without function
mapToolChoiceToToolConfig(toolChoice) ==
    IF toolChoice = Absent THEN [throws |-> FALSE, toolConfig |-> Absent]
    ELSE IF toolChoice[1].kind = "none"
    THEN [throws |-> FALSE,
          toolConfig |-> Some([mode |-> "NONE", allowedFunctionNames |-> Absent])]
    ELSE IF toolChoice[1].kind = "object"
    THEN IF toolChoice[1].function = Absent
         THEN [throws |-> TRUE, toolConfig |-> Absent]
         ELSE [throws |-> FALSE,
               toolConfig |-> Some([mode |-> "ANY",
                                    allowedFunctionNames |-> Some(toolChoice[1].function)])]
    ELSE [throws |-> FALSE,
          toolConfig |-> Some([mode |-> "AUTO", allowedFunctionNames |-> Absent])]

\* mapOpenAIChatCompletionRequestToGemini: the request it returns, or that
\* it throws, and the L1 front after the cache lookups
mapOpenAIChatCompletionRequestToGemini(request, l1, d) ==
    LET messages == request.messages
        messagesWithoutSystem == SelectSeq(messages, LAMBDA m : ~isSystemMessage(m))
        Request(r, tc) ==
            IF r.throws \/ tc.throws
            THEN [throws |-> TRUE, contents |-> r.contents, systemInstruction |-> Absent,
                  model |-> "", thinkingConfig |-> Absent, toolConfig |-> Absent,
                  l1 |-> r.l1]
            ELSE [throws |-> FALSE,
                  contents |-> r.contents,
                  systemInstruction |-> IF Len(messages) = 0
                                        THEN Absent ELSE mapSystemInstruction(messages),
                  model |-> mapModelToGemini(request.model),
                  thinkingConfig |-> ThinkingConfigOf(mapModelToGemini(request.model),
                                                      ReasoningEffortOf(request)),
                  toolConfig |-> tc.toolConfig,
                  l1 |-> r.l1]
    IN Request(mapOpenAIMessagesToGeminiFormat(messagesWithoutSystem, l1, d),
               mapToolChoiceToToolConfig(request.tool_choice))

\* ------------------------------------------------------------------------
\* Translation of a request, clock and sweep
\* ------------------------------------------------------------------------
NoResult ==
    [throws |-> FALSE, contents |-> <<>>, systemInstruction |-> Absent,
     model |-> "", thinkingConfig |-> Absent, toolConfig |-> Absent]

\* one call of mapOpenAIChatCompletionRequestToGemini on a request drawn
\* from requests
TranslateRequest(requests) ==
    /\ \E request \in requests :
         \E r \in {mapOpenAIChatCompletionRequestToGemini(request, l1Cache, db)} :
            /\ xin' = [messages |-> request.messages, l1 |-> l1Cache, db |-> db,
                       request |-> request]
            /\ xout' = [throws |-> r.throws, contents |-> r.contents,
                        systemInstruction |-> r.systemInstruction,
                        model |-> r.model, thinkingConfig |-> r.thinkingConfig,
                        toolConfig |-> r.toolConfig]
            /\ l1Cache' = r.l1
    /\ UNCHANGED <<streamVars, db, now, issued, clientVars, probe, usageVars, sse, taskVars>>

\* the same for requests that differ in their messages only
Translate(requests) == TranslateRequest({ChatCompletionRequest(m) : m \in requests})

\* time passes
Tick ==
    /\ now < MaxNow * TickMs
    /\ now' = now + TickMs
    /\ UNCHANGED <<streamVars, l1Cache, db, xlateVars, clientVars, probe, usageVars, sse, taskVars, issued>>

\* setInterval(() => this.cleanup(), 10 * 60 * 1000)
Cleanup ==
    /\ now % CLEANUP_INTERVAL_MS = 0
    /\ LET r == cleanup(l1Cache, db, now)
       IN /\ l1Cache' = r.l1
          /\ db' = r.db
    /\ UNCHANGED <<streamVars, now, xlateVars, clientVars, probe, usageVars, sse, taskVars, issued>>

\* ------------------------------------------------------------------------
\* The upstream client: POSTs, the 401 retry and the rate-limit fallback
\* ------------------------------------------------------------------------
\* the number of upstream responses of one call that are not plain successes
MaxPosts == 4

\* an upstream response: its status and whether it has a body
Response(status, body) == [status |-> status, body |-> body]
OkResponse == Response(200, TRUE)
Responses == {OkResponse, Response(200, FALSE), Response(401, TRUE),
              Response(429, TRUE), Response(500, TRUE)}

\* errors: GeminiApiError carries the status; Error is any other error
NoError == [kind |-> "none", status |-> 0]
GeminiApiError(status) == [kind |-> "GeminiApiError", status |-> status]
OtherError == [kind |-> "Error", status |-> 0]

\* the course of a call: the responses still to come (a plain success once
\* they are used up), the POSTs made, the times the cached access token was
\* cleared, the errors thrown with the number of POSTs made before, the
\* fallbacks attempted, and the error the call ends with
Course(responses) ==
    [rest |-> responses, posts |-> <<>>, clears |-> 0, thrown |-> <<>>,
     fallbacks |-> <<>>, error |-> NoError]
Post(c, model, isRetry, method) ==
    LET response == IF c.rest = <<>> THEN OkResponse ELSE Head(c.rest)
    IN [c EXCEPT !.rest = IF c.rest = <<>> THEN <<>> ELSE Tail(c.rest),
                 !.posts = Append(@, [method |-> method, model |-> model,
                                      isRetry |-> isRetry, status |-> response.status,
                                      body |-> response.body])]
Throw(c, error) ==
    [c EXCEPT !.error = error,
              !.thrown = Append(@, [error |-> error, after |-> Len(c.posts)])]
LastPost(c) == c.posts[Len(c.posts)]

\* callEndpoint: one POST, GeminiApiError on a status that is not 2xx
callEndpoint(method, c) ==
    LET Answer(posted) ==
            IF LastPost(posted).status # 200
            THEN Throw(posted, GeminiApiError(LastPost(posted).status))
            ELSE posted
    IN Answer(Post(c, "", FALSE, method))

\* streamContentInternal up to the first byte of the body
RECURSIVE streamContentInternal(_, _, _)
streamContentInternal_NoRetry(model, isRetry, c) ==
    LET Answer(posted) ==
            IF LastPost(posted).status # 200
            THEN Throw(posted, GeminiApiError(LastPost(posted).status))
            ELSE IF ~LastPost(posted).body THEN Throw(posted, OtherError)
            ELSE posted
    IN Answer(Post(c, model, isRetry, "streamGenerateContent"))
streamContentInternal(model, isRetry, c) ==
    LET Answer(posted) ==
            IF LastPost(posted).status # 200
            THEN IF LastPost(posted).status = 401 /\ ~isRetry
                 THEN streamContentInternal(model, TRUE,
                                            [posted EXCEPT !.clears = @ + 1])
                 ELSE Throw(posted, GeminiApiError(LastPost(posted).status))
            ELSE IF ~LastPost(posted).body THEN Throw(posted, OtherError)
            ELSE posted
    IN Answer(Post(c, model, isRetry, "streamGenerateContent"))

\* AutoModelSwitchingHelper: the statuses classified as rate-limit, the
\* policy table (each model to at most one fallback, the bottom of the chain
\* to none), and the fallback handlers, which call back once: handleFallback
\* is the model and the data of that one call
isRateLimitError(status) == status \in {429, 503}
FallbackModels ==
    ("gemini-3-pro-preview" :> "gemini-2.5-pro") @@ ("gemini-2.5-pro" :> "gemini-2.5-flash")
shouldAttemptFallback(model) == model \in DOMAIN FallbackModels
handleFallback(model, statusCode, c) ==
    [model |-> FallbackModels[model],
     data |-> [c EXCEPT !.error = NoError,
                        !.fallbacks = Append(@, [model |-> model, status |-> statusCode,
                                                 to |-> FallbackModels[model],
                                                 after |-> Len(c.posts)])]]

\* streamContent: streamContentInternal, and on a rate-limit error of an
\* eligible model the fallback on a new client
RECURSIVE streamContent(_, _, _, _)
streamContent_IgnoreSwitch(model, isRetry, disableAutoModelSwitch, c) ==
    LET Retry(f) == streamContent(f.model, isRetry, disableAutoModelSwitch, f.data)
        Catch(r) ==
            IF /\ r.error.kind = "GeminiApiError"
               /\ isRateLimitError(r.error.status)
               /\ shouldAttemptFallback(model)
            THEN Retry(handleFallback(model, r.error.status, r))
            ELSE r
    IN Catch(streamContentInternal(model, isRetry, c))
streamContent(model, isRetry, disableAutoModelSwitch, c) ==
    LET Retry(f) == streamContent(f.model, isRetry, disableAutoModelSwitch, f.data)
        Catch(r) ==
            IF /\ r.error.kind = "GeminiApiError"
               /\ ~disableAutoModelSwitch
               /\ isRateLimitError(r.error.status)
               /\ shouldAttemptFallback(model)
            THEN Retry(handleFallback(model, r.error.status, r))
            ELSE r
    IN Catch(streamContentInternal(model, isRetry, c))

\* getCompletion: streamContent to its end, and its own fallback
RECURSIVE getCompletion(_, _, _, _)
getCompletion(model, isRetry, disableAutoModelSwitch, c) ==
    LET Retry(f) == getCompletion(f.model, isRetry, disableAutoModelSwitch, f.data)
        Catch(r) ==
            IF /\ r.error.kind = "GeminiApiError"
               /\ ~disableAutoModelSwitch
               /\ isRateLimitError(r.error.status)
               /\ shouldAttemptFallback(model)
            THEN Retry(handleFallback(model, r.error.status, r))
            ELSE r
    IN Catch(streamContent(model, isRetry, disableAutoModelSwitch, c))

\* no client call made yet; no discoverProjectId call made yet: position,
\* retryCount, the calls of each endpoint, the project loadCodeAssist answered
\* ("" for none), the done answers and the id of the last one ("" for none),
\* the outcome, the id of the handshake that succeeded on this client ("" for
\* none) and whether the call began after it, the status of the last answer
\* (0 for none) and whether the call began after one that failed
NoCall == [op |-> "none", model |-> "", disableAutoModelSwitch |-> FALSE, responses |-> <<>>]
NoOutcome == [kind |-> "none", id |-> ""]
NoDiscovery ==
    [pc |-> "idle", retryCount |-> 0, loadCalls |-> 0, onboardCalls |-> 0,
     loadProject |-> "", dones |-> 0, lroId |-> "", outcome |-> NoOutcome, handshake |-> "", after |-> FALSE,
     status |-> 0, retried |-> FALSE]
\* no second stream: which stream is suspended (0 for none), whether it runs
\* on the same client, its firstChunk if not, its position, its locals
\* (lines 280-290), its chunks and its history
NoOther ==
    [no |-> 0, sameClient |-> TRUE, firstChunk |-> TRUE, pc |-> "idle", toolCallId |-> 0,
     currentThoughtSignature |-> "", accumulatedThoughtText |-> <<>>,
     thinkingTagBuffer |-> <<>>, insideThinkingTag |-> FALSE, chunks |-> <<>>,
     pending |-> <<>>, delivered |-> <<>>, partsSeen |-> <<>>, minted |-> <<>>]
\* no concurrent discoverProjectId calls: the position, retryCount and result
\* ("" for none) of each caller and the loadCodeAssist calls made in total
NoCallers ==
    [pc |-> <<"idle", "idle">>, retryCount |-> <<0, 0>>, result |-> <<"", "">>,
     loadCalls |-> 0]
\* no signature cache call made yet: the last call and its id, whether a
\* store found the table full, the ids stored so far, the latest entry
\* stored under each id, and the ids evicted from the table, expired or
\* cleared since they were last stored
NoProbe ==
    [op |-> "none", id |-> 0, full |-> FALSE, stored |-> 0, written |-> {}, gone |-> {}]

Init ==
    /\ pc = "idle"
    /\ firstChunk = TRUE
    /\ toolCallId = 0
    /\ currentThoughtSignature = ""
    /\ accumulatedThoughtText = <<>>
    /\ thinkingTagBuffer = <<>>
    /\ insideThinkingTag = FALSE
    /\ chunks = <<>>
    /\ pending = <<>>
    /\ textParts = 0
    /\ otherParts = 0
    /\ delivered = <<>>
    /\ partsSeen = <<>>
    /\ minted = <<>>
    /\ streamNo = 0
    /\ nextUuid = 1
    /\ l1Cache = <<>>
    /\ db = {}
    /\ now = 0
    /\ xin = [messages |-> <<>>, l1 |-> <<>>, db |-> {}, request |-> ChatCompletionRequest(<<>>)]
    /\ issued = {}
    /\ xout = NoResult
    /\ cin = NoCall
    /\ cout = Course(<<>>)
    /\ googleCloudProject = ""
    /\ projectId = ""
    /\ disc = NoDiscovery
    /\ probe = NoProbe
    /\ usageData = Absent
    /\ usageSeen = <<>>
    /\ sse = NoParse
    /\ other = NoOther
    /\ callers = NoCallers

\* the transformer on streams of thought, text and functionCall parts
StreamStart == StartStream(StreamTexts)

Next ==
    \/ StreamStart
    \/ NewClient
    \/ ThoughtPart
    \/ TextPart(MaxTextParts)
    \/ FunctionCallPart
    \/ EndStream

Spec == Init /\ [][Next]_vars

\* two streamContentInternal calls in progress at once, on one client or on
\* two: the visible text of the first and of the second
IsolateTexts == << <<"a", "<">>, OpenTag \o <<"b">> >>

\* mutant: the locals are kept as fields that both calls read and write
Local_AsField(own, running) == running

\* a local of the generator (lines 280-290): the call that resumes finds the
\* value it left, whatever the call that ran meanwhile holds
Local(own, running) == own

\* both calls are made and have initialised their locals; the first runs,
\* the second is suspended at its first read
TwoStreams ==
    /\ pc = "idle"
    /\ other.no = 0
    /\ streamNo + 2 <= MaxStreams
    /\ pc' = "streaming"
    /\ toolCallId' = 0
    /\ currentThoughtSignature' = ""
    /\ accumulatedThoughtText' = <<>>
    /\ thinkingTagBuffer' = <<>>
    /\ insideThinkingTag' = FALSE
    /\ chunks' = <<>>
    /\ delivered' = <<>>
    /\ partsSeen' = <<>>
    /\ minted' = <<>>
    /\ streamNo' = streamNo + 2
    /\ pending' = IsolateTexts[1]
    /\ \E same \in BOOLEAN :
          other' = [NoOther EXCEPT !.no = 2, !.sameClient = same, !.pc = "streaming",
                                   !.pending = IsolateTexts[2]]
    /\ UNCHANGED <<firstChunk, textParts, otherParts, nextUuid, cacheVars, xlateVars,
                   clientVars, probe, issued, usageVars, sse, callers>>

\* the running call suspends at a read, and the other call resumes: each finds its own locals, chunks and upstream; firstChunk is a
\* field of the client
Switch ==
    /\ other.no # 0
    /\ other.pc = "streaming"
    /\ pc' = other.pc
    /\ firstChunk' = IF other.sameClient THEN firstChunk ELSE other.firstChunk
    /\ toolCallId' = Local(other.toolCallId, toolCallId)
    /\ currentThoughtSignature' = Local(other.currentThoughtSignature, currentThoughtSignature)
    /\ accumulatedThoughtText' = Local(other.accumulatedThoughtText, accumulatedThoughtText)
    /\ thinkingTagBuffer' = Local(other.thinkingTagBuffer, thinkingTagBuffer)
    /\ insideThinkingTag' = Local(other.insideThinkingTag, insideThinkingTag)
    /\ chunks' = other.chunks
    /\ pending' = other.pending
    /\ delivered' = other.delivered
    /\ partsSeen' = other.partsSeen
    /\ minted' = other.minted
    /\ other' =
          [no |-> 3 - other.no,
           sameClient |-> other.sameClient,
           firstChunk |-> IF other.sameClient THEN other.firstChunk ELSE firstChunk,
           pc |-> pc,
           toolCallId |-> Local(toolCallId, other.toolCallId),
           currentThoughtSignature |->
               Local(currentThoughtSignature, other.currentThoughtSignature),
           accumulatedThoughtText |->
               Local(accumulatedThoughtText, other.accumulatedThoughtText),
           thinkingTagBuffer |-> Local(thinkingTagBuffer, other.thinkingTagBuffer),
           insideThinkingTag |-> Local(insideThinkingTag, other.insideThinkingTag),
           chunks |-> chunks,
           pending |-> pending,
           delivered |-> delivered,
           partsSeen |-> partsSeen,
           minted |-> minted]
    /\ UNCHANGED <<textParts, otherParts, streamNo, nextUuid, cacheVars, xlateVars,
                   clientVars, probe, issued, usageVars, sse, callers>>

\* the next part of the running call, MaxIsolateParts parts in all
IsolatePart ==
    /\ Len(partsSeen) + Len(other.partsSeen) < MaxIsolateParts
    /\ (ThoughtPart \/ TextPart(MaxTextParts) \/ FunctionCallPart)

NextIsolate ==
    \/ TwoStreams
    \/ Switch
    \/ IsolatePart

SpecIsolate == Init /\ [][NextIsolate]_vars

\* the splitter alone: one stream of visible text parts
SplitStart == streamNo = 0 /\ StartStream(SplitTexts)

NextSplit ==
    \/ SplitStart
    \/ TextPart(MaxSplitParts)
    \/ EndStream

SpecSplit == Init /\ [][NextSplit]_vars

\* one stream of text and functionCall parts whose envelopes may carry
\* usageMetadata
UsageStart == streamNo = 0 /\ StartStream(StreamTexts)

NextUsage ==
    \/ UsageStart
    \/ TextPart(MaxTextParts)
    \/ FunctionCallPart
    \/ UsageMetadata
    \/ EndStream

SpecUsage == Init /\ [][NextUsage]_vars

\* ------------------------------------------------------------------------
\* Signature continuity: streams that store signatures, then the translation
\* of an assistant message that carries the tool calls back
\* ------------------------------------------------------------------------
SeqsUpTo(S, n) == UNION {[1..k -> S] : k \in 1..n}

AssistantMessage(content, toolCalls, signature, thinking) ==
    [ChatMessage("assistant", content) EXCEPT
        !.tool_calls = Some(toolCalls), !.signature = signature, !.thinking = thinking]

RoundContents ==
    { StringContent(<<>>),
      StringContent(OpenTag \o <<"w">> \o CloseTag \o <<" ", "v">>) }
RoundReasoning == { [signature |-> "", thinking |-> <<>>],
                    [signature |-> "M", thinking |-> <<"m">>] }

\* the assistant messages a caller may send back: tool calls with ids minted
\* so far, each at most once, in any order
RoundRequests ==
    LET tcs == {ToolCall(id, "f", "json") : id \in 1..(nextUuid - 1)}
        Spoil(l, bad) == IF bad THEN [l EXCEPT ![Len(l)].arguments = "garbage"] ELSE l
        Distinct(l) == \A i, j \in 1..Len(l) : l[i].id = l[j].id => i = j
    IN { <<AssistantMessage(c, Spoil(l, bad), rf.signature, rf.thinking)>> :
            c \in RoundContents,
            l \in {x \in SeqsUpTo(tcs, MaxToolCalls) : Distinct(x)},
            rf \in RoundReasoning, bad \in BOOLEAN }

\* the streams come first, the translation of the next request after them
Untranslated == xin.messages = <<>>
RoundStart == Untranslated /\ pc = "idle" /\ StartStream({<<>>})
RoundThought == Untranslated /\ otherParts < MaxRoundParts /\ ThoughtPart
RoundFunctionCall == Untranslated /\ otherParts < MaxRoundParts /\ FunctionCallPart
RoundEnd == Untranslated /\ EndStream
RoundReturn == Untranslated /\ Return
RoundTranslate == Untranslated /\ pc = "idle" /\ Translate(RoundRequests)
RoundTick == Untranslated /\ pc = "idle" /\ Tick
RoundCleanup == Untranslated /\ pc = "idle" /\ Cleanup

NextRound ==
    \/ RoundStart
    \/ RoundThought
    \/ RoundFunctionCall
    \/ RoundEnd
    \/ RoundReturn
    \/ RoundTranslate
    \/ RoundTick
    \/ RoundCleanup

SpecRound == Init /\ [][NextRound]_vars

\* ------------------------------------------------------------------------
\* Properties of the streaming transformer
\* ------------------------------------------------------------------------
RoleChunks == {i \in 1..Len(chunks) : chunks[i].delta.role = "assistant"}
TerminalChunks == {i \in 1..Len(chunks) : chunks[i].finish_reason # "null"}
ToolCallChunks == {i \in 1..Len(chunks) : chunks[i].delta.tool_calls # <<>>}

\* concatenation of the content deltas of a chunk sequence
RECURSIVE ContentOut(_)
ContentOut(cs) ==
    IF cs = <<>> THEN <<>>
    ELSE LET c == Head(cs).delta.content
         IN (IF c = Absent \/ c = Null THEN <<>> ELSE c[1]) \o ContentOut(Tail(cs))

\* concatenation of the reasoning deltas of a chunk sequence
RECURSIVE ThinkingOut(_)
ThinkingOut(cs) ==
    IF cs = <<>> THEN <<>>
    ELSE LET t == Head(cs).delta.thinking
         IN (IF t = Absent THEN <<>> ELSE t[1]) \o ThinkingOut(Tail(cs))

\* a text with every well-formed <thinking>...</thinking> pair removed
RECURSIVE Excise(_)
Excise(text) ==
    LET open == IndexOf(text, OpenTag)
        rest == SubstringFrom(text, open + Len(OpenTag))
        close == IF open = -1 THEN -1 ELSE IndexOf(rest, CloseTag)
    IN IF open = -1 \/ close = -1 THEN text
       ELSE Substring(text, 0, open) \o Excise(SubstringFrom(rest, close + Len(CloseTag)))

\* u can be obtained from t by deleting characters
RECURSIVE IsSubsequence(_, _)
IsSubsequence(u, t) ==
    IF u = <<>> THEN TRUE
    ELSE IF t = <<>> THEN FALSE
    ELSE IF Head(u) = Head(t) THEN IsSubsequence(Tail(u), Tail(t))
    ELSE IsSubsequence(u, Tail(t))

\* C1: in every finished stream exactly one chunk carries delta.role =
\* "assistant", and it is the first chunk of the stream.
C1_RoleOnFirstChunkOnly == pc = "done" => RoleChunks = {1}

\* C2: a stream whose envelopes are exhausted has exactly one chunk with a
\* non-null finish_reason; it is the last chunk and its delta is empty.
C2_OneTerminalChunk ==
    pc = "done" =>
        /\ TerminalChunks = {Len(chunks)}
        /\ chunks[Len(chunks)].delta = EmptyDelta
C2_Witness ==
    /\ pc = "done"
    /\ Len(chunks) >= 4
    /\ ToolCallChunks # {}
    /\ \E i \in 1..Len(chunks) : chunks[i].delta.thinking # Absent
    /\ \E i \in 1..Len(chunks) : chunks[i].delta.content \notin {Absent, Null}

\* C3: the terminal chunk's finish_reason is "tool_calls" if and only if the
\* stream emitted a chunk with a tool_calls delta, and "stop" otherwise.
C3_FinishReason ==
    pc = "done" =>
        chunks[Len(chunks)].finish_reason =
            IF ToolCallChunks # {} THEN "tool_calls" ELSE "stop"
C3_Witness ==
    /\ pc = "done"
    /\ ToolCallChunks # {}
    /\ Len(chunks) \notin ToolCallChunks
    /\ Len(chunks) - 1 \notin ToolCallChunks
    /\ chunks[Len(chunks)].finish_reason = "tool_calls"

\* C4: no <thinking>...</thinking> block of the visible text, tags or
\* interior, is emitted in a content delta: the content emitted so far is
\* made of characters of the visible text outside its well-formed blocks.
C4_NoThinkingBlockInContent == IsSubsequence(ContentOut(chunks), Excise(delivered))

\* C5: however the visible text is cut into parts, at the end of the stream
\* the concatenation of the content deltas is the text with every
\* well-formed <thinking>...</thinking> pair removed.
C5_FragmentationIndependence ==
    pc = "done" => ContentOut(chunks) = Excise(delivered)

\* the signature get(id) would return, "" when the cache has no entry
CachedSignatureOf(id) ==
    IF has(l1Cache, db, id) THEN get(l1Cache, db, id).entry.signature ELSE ""
CachedThoughtTextOf(id) ==
    IF has(l1Cache, db, id) THEN get(l1Cache, db, id).entry.thoughtText ELSE <<>>

\* the signatures carried by the parts seen so far, at positions in ps
SigsAt(ps) == {partsSeen[i].sig : i \in ps} \ {""}
ThoughtPositionsBefore(p) == {i \in 1..(p - 1) : partsSeen[i].kind = "thought"}

\* signature of the last signed thought part before position p, "" if none
LastThoughtSignatureBefore(p) ==
    LET signed == {i \in ThoughtPositionsBefore(p) : partsSeen[i].sig # ""}
    IN IF signed = {} THEN ""
       ELSE partsSeen[CHOOSE i \in signed : \A j \in signed : j <= i].sig

\* signature of the first signed functionCall part at or before p, "" if none
FirstFunctionCallSignatureUpTo(p) ==
    LET signed == {i \in 1..p : partsSeen[i].kind = "functionCall" /\ partsSeen[i].sig # ""}
    IN IF signed = {} THEN ""
       ELSE partsSeen[CHOOSE i \in signed : \A j \in signed : i <= j].sig

\* the signature in force at the functionCall part at position p; a
\* functionCall signature adopted before the first signed thought part stays
\* in force only until that thought part
SignatureInForceAt(p) ==
    IF LastThoughtSignatureBefore(p) # "" THEN LastThoughtSignatureBefore(p)
    ELSE FirstFunctionCallSignatureUpTo(p)

\* C6 as stated: when the stream ends, every tool-call id it minted is in the
\* signature cache mapped to every signature observed on a part of the stream.
C6_AnySignatureOnEveryToolCall ==
    pc = "done" =>
        \A S \in SigsAt(1..Len(partsSeen)) : \A k \in 1..Len(minted) :
            CachedSignatureOf(minted[k].id) = S

\* C6 amended: a tool-call id is associated with the signature in force when
\* it is minted, which is the signature of the last signed thought part before
\* the functionCall part or, without one, of the first signed functionCall
\* part so far; an id minted while no signature is known is not stored.
C6_SignatureInForceCached ==
    \A k \in 1..Len(minted) :
        CachedSignatureOf(minted[k].id) = SignatureInForceAt(minted[k].pos)
C6_Witness ==
    /\ Len(minted) = 2
    /\ partsSeen[minted[1].pos].sig = "S1"
    /\ partsSeen[minted[2].pos].sig = ""
    /\ ThoughtPositionsBefore(minted[2].pos) = {}
    /\ \E i \in 1..Len(partsSeen) : partsSeen[i].kind = "thought" /\ partsSeen[i].sig = "S2"
    /\ CachedSignatureOf(minted[2].id) = "S1"

\* C7 as stated: a functionCall part without a signature of its own that
\* follows a thinking part with signature S has its tool-call id cached with S.
C7_AnyEarlierThoughtSignature ==
    \A k \in 1..Len(minted) :
        partsSeen[minted[k].pos].sig = "" =>
            \A S \in SigsAt(ThoughtPositionsBefore(minted[k].pos)) :
                CachedSignatureOf(minted[k].id) = S

\* C7 amended: S is the signature of the last signed thinking part before the
\* functionCall part.
C7_LastThoughtSignatureCached ==
    \A k \in 1..Len(minted) :
        (/\ partsSeen[minted[k].pos].sig = ""
         /\ LastThoughtSignatureBefore(minted[k].pos) # "")
        => CachedSignatureOf(minted[k].id) = LastThoughtSignatureBefore(minted[k].pos)
C7_Witness ==
    \E k \in 1..Len(minted) :
        /\ partsSeen[minted[k].pos].sig = ""
        /\ SigsAt(ThoughtPositionsBefore(minted[k].pos)) = {"S1", "S2"}
        /\ LastThoughtSignatureBefore(minted[k].pos) = "S2"
        /\ CachedSignatureOf(minted[k].id) = "S2"

\* ------------------------------------------------------------------------
\* Properties of the signature round trip
\* ------------------------------------------------------------------------
\* the assistant message of the last translation and its tool calls
XMsg == xin.messages[1]
XToolCalls == IF XMsg.tool_calls = Absent THEN <<>> ELSE XMsg.tool_calls[1]
XTurn == xout.contents[1]
NoReasoningFields(m) ==
    /\ m.signature = "" /\ m.cot_id = "" /\ m.reasoning_opaque = ""
    /\ m.thinking = <<>> /\ m.cot_summary = <<>> /\ m.reasoning_text = <<>>
\* an assistant message without reasoning fields was translated
RoundTripDone ==
    /\ Len(xin.messages) = 1
    /\ XMsg.role = "assistant"
    /\ NoReasoningFields(XMsg)
\* the entry of id was neither swept nor evicted when the translator ran
Live(id) == has(xin.l1, xin.db, id)

\* every functionCall part of the turn carries S; a non-empty cached thought
\* text T makes the first part the thought part {T, thought, S}
CarriesSignature(turn, S, T) ==
    /\ \A i \in 1..Len(turn.parts) :
          turn.parts[i].kind = "functionCall" => turn.parts[i].thought_signature = S
    /\ T # <<>> => (turn.parts # <<>> /\ turn.parts[1] = ThoughtPartG(T, S))

ToolMessage(id, content) == [ChatMessage("tool", content) EXCEPT !.tool_call_id = id]

MessagePool ==
    { ChatMessage("system", StringContent(<<"a">>)),
      ChatMessage("developer", StringContent(<<"b">>)),
      ChatMessage("system", PartsContent(<<TextContentPart(<<"c">>), ImageContentPart(TRUE),
                                            TextContentPart(<<"d">>)>>)),
      ChatMessage("user", StringContent(<<"u">>)),
      ChatMessage("assistant", StringContent(<<"v">>)),
      AssistantMessage(OtherContent, <<ToolCall(1, "f", "json"), ToolCall(2, "g", "json")>>, "", <<>>),
      AssistantMessage(OtherContent, <<ToolCall(1, "h", "json")>>, "", <<>>),
      AssistantMessage(StringContent(<<"v">>), <<ToolCall(3, "k", "json")>>, "", <<>>),
      ToolMessage(1, StringContent(<<"r">>)),
      ToolMessage(2, OtherContent),
      ToolMessage(3, StringContent(<<"s">>)) }

XlateRequests == {<<>>} \cup SeqsUpTo(MessagePool, MaxMessages)

XlateTranslate == Untranslated /\ Translate(XlateRequests)

NextXlate == XlateTranslate

SpecXlate == Init /\ [][NextXlate]_vars

\* one assistant message that carries any of the six reasoning fields, with
\* or without a tool call the cache does not know
AliasTranslate ==
    /\ Untranslated
    /\ Translate({ <<[ChatMessage("assistant", StringContent(<<>>)) EXCEPT
                         !.tool_calls = tc,
                         !.thinking = t1, !.signature = s1,
                         !.cot_summary = t2, !.cot_id = s2,
                         !.reasoning_text = t3, !.reasoning_opaque = s3]>> :
                    tc \in {Absent, Some(<<ToolCall(1, "f", "json")>>)},
                    t1 \in {<<>>, <<"t", "1">>}, s1 \in {"", "G1"},
                    t2 \in {<<>>, <<"t", "2">>}, s2 \in {"", "G2"},
                    t3 \in {<<>>, <<"t", "3">>}, s3 \in {"", "G3"} })

NextAlias == AliasTranslate

SpecAlias == Init /\ [][NextAlias]_vars

\* the text of a system or developer message
SystemText(m) ==
    IF m.content.kind = "string" THEN m.content.text
    ELSE IF m.content.kind = "parts" THEN ReduceText(m.content.parts)
    ELSE <<>>

\* the texts of the system and developer messages, concatenated in order
RECURSIVE SystemTexts(_)
SystemTexts(messages) ==
    IF messages = <<>> THEN <<>>
    ELSE (IF isSystemMessage(Head(messages)) THEN SystemText(Head(messages)) ELSE <<>>)
         \o SystemTexts(Tail(messages))

\* the parts of all turns, in order
RECURSIVE AllParts(_)
AllParts(contents) ==
    IF contents = <<>> THEN <<>> ELSE Head(contents).parts \o AllParts(Tail(contents))

Translated == xin.messages # <<>> /\ ~xout.throws

\* one turn per message, and one per run of consecutive tool messages
TurnCount(messages) ==
    Cardinality({p \in 1..Len(messages) :
                    messages[p].role # "tool" \/ p = 1 \/ messages[p - 1].role # "tool"})

\* C9: systemInstruction is the concatenation, in message order, of the text
\* of every system and developer message; it is absent when there is none;
\* the turns of contents come from the other messages only.
C9_SystemInstructionConcatenatesAll ==
    Translated =>
        /\ xout.systemInstruction =
              IF \E i \in 1..Len(xin.messages) : isSystemMessage(xin.messages[i])
              THEN Some(SystemTexts(xin.messages))
              ELSE Absent
        /\ Len(xout.contents) = TurnCount(SelectSeq(xin.messages, LAMBDA m : ~isSystemMessage(m)))

\* the name of the tool call with this id in the nearest message before
\* position p that is an assistant message whose tool_calls contain the id
RECURSIVE NameOfNearestCall(_, _, _)
NameOfNearestCall(messages, p, id) ==
    IF p < 1 THEN "unknown"
    ELSE LET m == messages[p]
             tcs == IF m.tool_calls = Absent THEN <<>> ELSE m.tool_calls[1]
             hits == {k \in 1..Len(tcs) : tcs[k].id = id}
         IN IF m.role = "assistant" /\ hits # {}
            THEN tcs[CHOOSE k \in hits : \A j \in hits : k <= j].name
            ELSE NameOfNearestCall(messages, p - 1, id)

\* the names expected for the tool messages of a list, in order
ExpectedResponseNames(messages) ==
    LET RECURSIVE F(_)
        F(p) == IF p > Len(messages) THEN <<>>
                ELSE (IF messages[p].role = "tool"
                      THEN <<NameOfNearestCall(messages, p - 1, messages[p].tool_call_id)>>
                      ELSE <<>>) \o F(p + 1)
    IN F(1)

\* the names of the functionResponse parts of contents, in order
ResponseNames(contents) ==
    LET ps == SelectSeq(AllParts(contents), LAMBDA q : q.kind = "functionResponse")
    IN [k \in 1..Len(ps) |-> ps[k].name]

\* C10: the functionResponse part of every tool message carries the function
\* name of the tool call with the same id in the nearest preceding assistant
\* message whose tool_calls contain that id, and "unknown" only without one.
C10_NameFromNearestMatchingCall ==
    Translated => ResponseNames(xout.contents) = ExpectedResponseNames(xin.messages)

\* ------------------------------------------------------------------------
\* Runs of tool messages
\* ------------------------------------------------------------------------
\* the positions of the messages that are neither system nor developer, in order
NonSystemPositions(messages) ==
    LET ns == {i \in 1..Len(messages) : ~isSystemMessage(messages[i])}
    IN [k \in 1..Cardinality(ns) |->
           CHOOSE i \in ns : Cardinality({j \in ns : j < i}) = k - 1]

\* position k of idx continues the run of tool messages of position k - 1;
\* adjacent requires the two messages to be neighbours in the message list
ContinuesRun(messages, idx, k, adjacent) ==
    /\ k > 1
    /\ messages[idx[k]].role = "tool"
    /\ messages[idx[k - 1]].role = "tool"
    /\ adjacent => idx[k] = idx[k - 1] + 1

\* the groups of message positions that make one turn each: a maximal run
\* of tool messages, or one message of another role
TurnGroups(messages, adjacent) ==
    LET idx == NonSystemPositions(messages)
        starts == {k \in 1..Len(idx) : ~ContinuesRun(messages, idx, k, adjacent)}
        StartOf(g) == CHOOSE k \in starts : Cardinality({j \in starts : j < k}) = g - 1
        EndOf(g) == IF g = Cardinality(starts) THEN Len(idx) ELSE StartOf(g + 1) - 1
    IN [g \in 1..Cardinality(starts) |-> SubSeq(idx, StartOf(g), EndOf(g))]

\* the turn is the translation of the group: a user turn with one
\* functionResponse per tool message in order, or the turn of the one message
TurnOfGroup(turn, messages, group) ==
    IF messages[group[1]].role = "tool"
    THEN /\ turn.role = "user"
         /\ Len(turn.parts) = Len(group)
         /\ \A k \in 1..Len(group) :
               /\ turn.parts[k].kind = "functionResponse"
               /\ turn.parts[k].response = messages[group[k]].content
    ELSE /\ Len(group) = 1
         /\ turn = mapOpenAIMessageToGeminiFormat(messages[group[1]], xin.l1, xin.db).turn

ContentsFollowGroups(adjacent) ==
    LET groups == TurnGroups(xin.messages, adjacent)
    IN /\ Len(xout.contents) = Len(groups)
       /\ \A g \in 1..Len(groups) : TurnOfGroup(xout.contents[g], xin.messages, groups[g])

\* C11 as stated: every maximal run of consecutive tool messages of the
\* message list makes exactly one user turn with one functionResponse per
\* tool message in order, and contents keeps the order of the messages that
\* are neither system nor developer.
C11_MaximalRunsOfMessageList == Translated => ContentsFollowGroups(TRUE)

\* C11 amended: the runs are those of the list left after the system and
\* developer messages are removed.
C11_MaximalRunsWithoutSystem == Translated => ContentsFollowGroups(FALSE)
C11_Witness ==
    /\ Translated
    /\ Len(xin.messages) = 4
    /\ xin.messages[1].role = "tool"
    /\ isSystemMessage(xin.messages[2])
    /\ xin.messages[3].role = "tool"
    /\ xin.messages[4].role = "assistant"
    /\ Len(xout.contents) = 2
    /\ Len(xout.contents[1].parts) = 2
    /\ xout.contents[1].parts[2].response = xin.messages[3].content
    /\ xout.contents[2].role = "model"

\* ------------------------------------------------------------------------
\* The request translator on whole requests
\* ------------------------------------------------------------------------
ConfigRequests ==
    LET Models == {"gemini-2.5-pro", "gemini-2.5-flash-lite", "gpt-4"}
        Efforts ==
            {Absent} \cup
            {Some(e) : e \in {"low", "medium", "high", "invalid", "toString", ""}}
        Reasonings == {Absent, Some(Absent), Some(Some("low")), Some(Some("high"))}
        ToolChoices ==
            {Absent, ToolChoice("none", Absent), ToolChoice("auto", Absent),
             ToolChoice("required", Absent), ToolChoice("object", Absent),
             ToolChoice("object", Some("")), ToolChoice("object", Some("f"))}
        Messages ==
            { <<ChatMessage("user", StringContent(<<"u">>))>>,
              <<ChatMessage("user", OtherContent)>>,
              <<AssistantMessage(OtherContent, <<ToolCall(1, "f", "garbage")>>, "", <<>>)>>,
              <<AssistantMessage(OtherContent, <<ToolCall(1, "f", "json")>>, "", <<>>),
                ToolMessage(1, OtherContent)>> }
    IN { [model |-> m, messages |-> ms, reasoning_effort |-> e, reasoning |-> r,
          tool_choice |-> tc] :
            m \in Models, ms \in Messages, e \in Efforts,
            r \in Reasonings, tc \in ToolChoices }

ConfigTranslate == Untranslated /\ TranslateRequest(ConfigRequests)

SpecConfig == Init /\ [][ConfigTranslate]_vars

\* C12: the translator is total: whatever the request, tool-call arguments
\* that are no JSON, an object tool_choice without a function and unexpected
\* content types included, it returns a request and raises nothing.
C12_TranslatorNeverRaises == ~xout.throws

\* the effort a request asks for, the top-level reasoning_effort before
\* reasoning.effort, when it is one of low, medium, high; Absent otherwise
RecognisedEffort ==
    LET Recognised(e) ==
            IF e # Absent /\ e[1] \in {"low", "medium", "high"} THEN e ELSE Absent
    IN IF xin.request.reasoning_effort # Absent
       THEN Recognised(xin.request.reasoning_effort)
       ELSE IF xin.request.reasoning = Absent THEN Absent
       ELSE Recognised(xin.request.reasoning[1])
BudgetOf(e) ==
    CASE e = "low" -> 1024
      [] e = "medium" -> 8192
      [] e = "high" -> 24576

\* C13: on a thinking model thinkingConfig is always set, to the budget of a
\* low, medium or high effort and to 8192 when the effort is absent or
\* unrecognised, with includeThoughts; on another model it is set exactly when
\* an effort was given and is recognised; reasoning_effort goes before
\* reasoning.effort.
C13_ThinkingConfigFollowsEffort ==
    Translated =>
       IF RecognisedEffort # Absent
       THEN xout.thinkingConfig =
               Some([thinkingBudget |-> BudgetOf(RecognisedEffort[1]),
                     includeThoughts |-> TRUE])
       ELSE IF xout.model \in THINKING_MODELS
       THEN xout.thinkingConfig = Some([thinkingBudget |-> 8192, includeThoughts |-> TRUE])
       ELSE xout.thinkingConfig = Absent

\* ------------------------------------------------------------------------
\* Calls of the upstream client
\* ------------------------------------------------------------------------
ClientModels ==
    {"gemini-3-pro-preview", "gemini-2.5-pro", "gemini-2.5-flash", "gemini-2.5-flash-lite"}
ClientResponses == SeqsUpTo(Responses, MaxPosts)

Uncalled == cin.op = "none"

\* one call of streamContent, read to its end
StreamContent ==
    /\ Uncalled
    /\ \E model \in ClientModels, disable \in BOOLEAN, responses \in ClientResponses :
          /\ cin' = [op |-> "streamContent", model |-> model,
                     disableAutoModelSwitch |-> disable, responses |-> responses]
          /\ cout' = streamContent(model, FALSE, disable, Course(responses))
    /\ UNCHANGED <<streamVars, cacheVars, xlateVars, issued, googleCloudProject,
                   projectId, disc, probe, usageVars, sse, taskVars>>

\* one call of getCompletion
GetCompletion ==
    /\ Uncalled
    /\ \E model \in ClientModels, disable \in BOOLEAN, responses \in ClientResponses :
          /\ cin' = [op |-> "getCompletion", model |-> model,
                     disableAutoModelSwitch |-> disable, responses |-> responses]
          /\ cout' = getCompletion(model, FALSE, disable, Course(responses))
    /\ UNCHANGED <<streamVars, cacheVars, xlateVars, issued, googleCloudProject,
                   projectId, disc, probe, usageVars, sse, taskVars>>

\* one call of callEndpoint
CallEndpoint ==
    /\ Uncalled
    /\ \E method \in {"loadCodeAssist", "onboardUser"}, responses \in ClientResponses :
          /\ cin' = [op |-> "callEndpoint", model |-> method,
                     disableAutoModelSwitch |-> FALSE, responses |-> responses]
          /\ cout' = callEndpoint(method, Course(responses))
    /\ UNCHANGED <<streamVars, cacheVars, xlateVars, issued, googleCloudProject,
                   projectId, disc, probe, usageVars, sse, taskVars>>

NextClient == StreamContent \/ GetCompletion \/ CallEndpoint

SpecClient == Init /\ [][NextClient]_vars

\* mutant: the fallback streams on the client that failed
FallbackClient_Same(first) == first

\* const fallbackClient = new GeminiApiClient(...): its firstChunk is true
FallbackClient(first) == TRUE

\* the catch of streamContent (lines 211-215): the error starts a fallback
CatchesFallback(error, model, disableAutoModelSwitch) ==
    /\ error.kind = "GeminiApiError"
    /\ ~disableAutoModelSwitch
    /\ isRateLimitError(error.status)
    /\ shouldAttemptFallback(model)

\* one call of streamContent on the current client: the POSTs up to the
\* first byte of a body, through the 401 retry and the fallbacks; the chunks
\* that follow are those of the client that got the body
StreamCall ==
    /\ pc = "idle"
    /\ streamNo < MaxStreams
    /\ \E model \in {"gemini-3-pro-preview", "gemini-2.5-flash"}, disable \in BOOLEAN,
          responses \in {<<>>, <<Response(429, TRUE)>>, <<Response(500, TRUE)>>,
                         <<Response(429, TRUE), Response(429, TRUE)>>,
                         <<Response(401, TRUE), Response(429, TRUE)>>} :
          \E r \in {streamContent(model, FALSE, disable, Course(responses))} :
             /\ cin' = [op |-> "streamContent", model |-> model,
                        disableAutoModelSwitch |-> disable, responses |-> responses]
             /\ cout' = r
             /\ firstChunk' = IF r.fallbacks # <<>> THEN FallbackClient(firstChunk)
                              ELSE firstChunk
             /\ pc' = IF r.error = NoError THEN "streaming" ELSE "idle"
    /\ toolCallId' = 0
    /\ currentThoughtSignature' = ""
    /\ accumulatedThoughtText' = <<>>
    /\ thinkingTagBuffer' = <<>>
    /\ insideThinkingTag' = FALSE
    /\ chunks' = <<>>
    /\ pending' = <<>>
    /\ delivered' = <<>>
    /\ partsSeen' = <<>>
    /\ minted' = <<>>
    /\ streamNo' = streamNo + 1
    /\ usageData' = Absent
    /\ usageSeen' = <<>>
    /\ UNCHANGED <<textParts, otherParts, nextUuid, cacheVars, xlateVars,
                   googleCloudProject, projectId, disc, probe, issued, sse, taskVars>>

\* reader.read() rejects while the body is read (line 551): the error is not
\* a GeminiApiError; the catch of streamContent sees it after the chunks
\* yielded so far
StreamError ==
    /\ pc = "streaming"
    /\ cout.error = NoError
    /\ \E thrown \in {Throw(cout, OtherError)} :
          IF CatchesFallback(thrown.error, LastPost(cout).model, cin.disableAutoModelSwitch)
          THEN /\ cout' = streamContent(FallbackModels[LastPost(cout).model], FALSE,
                                        cin.disableAutoModelSwitch,
                                        handleFallback(LastPost(cout).model,
                                                       thrown.error.status, thrown).data)
               /\ firstChunk' = FallbackClient(firstChunk)
               /\ pc' = IF cout'.error = NoError THEN "streaming" ELSE "idle"
          ELSE /\ cout' = thrown
               /\ pc' = "idle"
               /\ UNCHANGED firstChunk
    /\ UNCHANGED <<toolCallId, currentThoughtSignature, accumulatedThoughtText,
                   thinkingTagBuffer, insideThinkingTag, chunks, pending, textParts,
                   otherParts, delivered, partsSeen, minted, streamNo, nextUuid,
                   cacheVars, xlateVars, cin, googleCloudProject, projectId, disc,
                   probe, usageVars, sse, taskVars, issued>>

NextFallback ==
    \/ StreamCall
    \/ ThoughtPart
    \/ StreamError
    \/ EndStream
    \/ Return

SpecFallback == Init /\ [][NextFallback]_vars

\* the POSTs of the last call and whether the error of POST i was thrown
\* as a GeminiApiError with the status of that POST
Streamed == cin.op \in {"streamContent", "getCompletion"}
RaisedAt(i) ==
    \E k \in 1..Len(cout.thrown) :
       /\ cout.thrown[k].after = i
       /\ cout.thrown[k].error = GeminiApiError(cout.posts[i].status)

C15_AtMostOneFallback == Streamed => Len(cout.fallbacks) <= 1

\* C16: a fallback is attempted only on a GeminiApiError with a rate-limit
\* status, for a model that is eligible, with auto switching not disabled;
\* any other error is passed on unchanged and no further POST is made.
C16_FallbackOnlyWhenEligible ==
    Streamed =>
       /\ \A k \in 1..Len(cout.fallbacks) :
             /\ isRateLimitError(cout.fallbacks[k].status)
             /\ shouldAttemptFallback(cout.fallbacks[k].model)
             /\ ~cin.disableAutoModelSwitch
             /\ \E t \in 1..Len(cout.thrown) :
                   /\ cout.thrown[t].after = cout.fallbacks[k].after
                   /\ cout.thrown[t].error = GeminiApiError(cout.fallbacks[k].status)
       /\ cout.thrown # <<>> =>
             /\ ~(/\ cout.thrown[1].error.kind = "GeminiApiError"
                  /\ isRateLimitError(cout.thrown[1].error.status)
                  /\ shouldAttemptFallback(cin.model)
                  /\ ~cin.disableAutoModelSwitch) =>
                   /\ cout.error = cout.thrown[1].error
                   /\ Len(cout.posts) = cout.thrown[1].after
                   /\ cout.fallbacks = <<>>
       /\ cout.error # NoError =>
             /\ cout.error = cout.thrown[Len(cout.thrown)].error
             /\ Len(cout.posts) = cout.thrown[Len(cout.thrown)].after

\* a rate-limit error of an eligible model with auto switching disabled
C16_Witness ==
    /\ cin.op = "getCompletion"
    /\ cin.model = "gemini-2.5-pro"
    /\ cin.disableAutoModelSwitch
    /\ Len(cout.posts) = 1
    /\ cout.error = GeminiApiError(429)
    /\ cout.fallbacks = <<>>

\* ------------------------------------------------------------------------
\* Project discovery
\* ------------------------------------------------------------------------
MAX_RETRIES == 30

\* what loadCodeAssist answers: a status and cloudaicompanionProject ("" for
\* none); what onboardUser answers: a status, done, and
\* response.cloudaicompanionProject.id ("" for none)
LoadResponses ==
    {[status |-> 500, project |-> ""], [status |-> 200, project |-> ""],
     [status |-> 200, project |-> "p"]}
OnboardResponses ==
    {[status |-> 500, done |-> FALSE, id |-> ""], [status |-> 200, done |-> FALSE, id |-> ""],
     [status |-> 200, done |-> TRUE, id |-> ""], [status |-> 200, done |-> TRUE, id |-> "q"]}

Returned(id) == [kind |-> "returned", id |-> id]
Failed == [kind |-> "failed", id |-> ""]

\* callEndpoint: if (!response.ok) throw
ResponseOk_Always(status) == TRUE
ResponseOk(status) == status = 200

\* the project id known without a handshake: the configured one, else the
\* cached one, else none
CachedProject_ConfiguredOnly(configured, cached) == configured
CachedProject(configured, cached) == IF configured # "" THEN configured ELSE cached

\* lroResponse.response?.cloudaicompanionProject?.id ?? initialProjectId
ProjectIdOf_NoDefault(id) == id
ProjectIdOf(id) == IF id = "" THEN "default-project" ELSE id

\* new GeminiApiClient(authClient, googleCloudProject, ...)
ConfiguredClient ==
    /\ disc.pc = "idle"
    /\ \E configured \in {"", "g"} : googleCloudProject' = configured
    /\ projectId' = ""
    /\ disc' = NoDiscovery
    /\ UNCHANGED <<streamVars, cacheVars, xlateVars, issued, cin, cout, probe, usageVars, sse, taskVars>>

\* discoverProjectId up to its first onboardUser call
DiscoverStart ==
    /\ disc.pc = "idle"
    /\ \E known \in {CachedProject(googleCloudProject, projectId)} :
       \E started \in {[NoDiscovery EXCEPT !.handshake = disc.handshake,
                                           !.after = disc.handshake # "",
                                           !.retried = disc.outcome = Failed]} :
          IF known # ""
          THEN /\ disc' = [started EXCEPT !.outcome = Returned(known)]
               /\ UNCHANGED projectId
          ELSE \E load \in LoadResponses :
                  IF ~ResponseOk(load.status)
                  THEN /\ disc' = [started EXCEPT !.loadCalls = 1, !.status = load.status,
                                                  !.outcome = Failed]
                       /\ UNCHANGED projectId
                  ELSE IF load.project # ""
                  THEN /\ disc' = [started EXCEPT !.loadCalls = 1, !.status = load.status,
                                                  !.loadProject = load.project,
                                                  !.outcome = Returned(load.project),
                                                  !.handshake = load.project]
                       /\ projectId' = load.project
                  ELSE /\ disc' = [started EXCEPT !.loadCalls = 1, !.status = load.status,
                                                  !.pc = "polling"]
                       /\ UNCHANGED projectId
    /\ UNCHANGED <<streamVars, cacheVars, xlateVars, issued, cin, cout, probe, usageVars, sse, taskVars,
                   googleCloudProject>>

\* one turn of the poll loop: an onboardUser call and what follows it
OnboardPoll ==
    /\ disc.pc = "polling"
    /\ disc.retryCount < MAX_RETRIES
    /\ \E lro \in OnboardResponses :
       \E called \in {[disc EXCEPT !.onboardCalls = @ + 1, !.status = lro.status]} :
          IF ~ResponseOk(lro.status)
          THEN /\ disc' = [called EXCEPT !.pc = "idle", !.outcome = Failed]
               /\ UNCHANGED projectId
          ELSE IF lro.done
          THEN /\ disc' = [called EXCEPT !.pc = "idle", !.dones = @ + 1, !.lroId = lro.id,
                                         !.outcome = Returned(ProjectIdOf(lro.id)),
                                         !.handshake = ProjectIdOf(lro.id)]
               /\ projectId' = ProjectIdOf(lro.id)
          ELSE /\ disc' = [called EXCEPT !.retryCount = @ + 1]
               /\ UNCHANGED projectId
    /\ UNCHANGED <<streamVars, cacheVars, xlateVars, issued, cin, cout, probe, usageVars, sse, taskVars,
                   googleCloudProject>>

\* the loop ends with no done answer: onboardingTimeout, rethrown
OnboardTimeout ==
    /\ disc.pc = "polling"
    /\ disc.retryCount >= MAX_RETRIES
    /\ disc' = [disc EXCEPT !.pc = "idle", !.outcome = Failed]
    /\ UNCHANGED <<streamVars, cacheVars, xlateVars, issued, cin, cout, probe, usageVars, sse, taskVars,
                   googleCloudProject, projectId>>

NextDiscover == ConfiguredClient \/ DiscoverStart \/ OnboardPoll \/ OnboardTimeout

SpecDiscover == Init /\ [][NextDiscover]_vars

\* two discoverProjectId calls on one client, interleaved at their awaits.
\* The call up to its first await: the two early returns, else the
\* loadCodeAssist request is sent (lines 51-63)
RaceCall(i) ==
    /\ callers.pc[i] = "idle"
    /\ \E known \in {CachedProject(googleCloudProject, projectId)} :
          IF known # ""
          THEN callers' = [callers EXCEPT !.pc[i] = "returned", !.result[i] = known]
          ELSE callers' = [callers EXCEPT !.pc[i] = "loading", !.loadCalls = @ + 1]
    /\ UNCHANGED <<streamVars, cacheVars, xlateVars, issued, clientVars, probe, usageVars,
                   sse, other>>

\* the loadCodeAssist answer arrives (lines 60-75)
RaceLoad(i) ==
    /\ callers.pc[i] = "loading"
    /\ \E load \in LoadResponses :
          IF ~ResponseOk(load.status)
          THEN /\ callers' = [callers EXCEPT !.pc[i] = "failed"]
               /\ UNCHANGED projectId
          ELSE IF load.project # ""
          THEN /\ callers' = [callers EXCEPT !.pc[i] = "returned", !.result[i] = load.project]
               /\ projectId' = load.project
          ELSE /\ callers' = [callers EXCEPT !.pc[i] = "polling"]
               /\ UNCHANGED projectId
    /\ UNCHANGED <<streamVars, cacheVars, xlateVars, issued, cin, cout, googleCloudProject,
                   disc, probe, usageVars, sse, other>>

\* one turn of the poll loop (lines 81-94)
RacePoll(i) ==
    /\ callers.pc[i] = "polling"
    /\ callers.retryCount[i] < MAX_RETRIES
    /\ \E lro \in OnboardResponses :
          IF ~ResponseOk(lro.status)
          THEN /\ callers' = [callers EXCEPT !.pc[i] = "failed"]
               /\ UNCHANGED projectId
          ELSE IF lro.done
          THEN /\ callers' = [callers EXCEPT !.pc[i] = "returned",
                                             !.result[i] = ProjectIdOf(lro.id)]
               /\ projectId' = ProjectIdOf(lro.id)
          ELSE /\ callers' = [callers EXCEPT !.retryCount[i] = @ + 1]
               /\ UNCHANGED projectId
    /\ UNCHANGED <<streamVars, cacheVars, xlateVars, issued, cin, cout, googleCloudProject,
                   disc, probe, usageVars, sse, other>>

\* the loop ends with no done answer (lines 90-92, 95-98)
RaceTimeout(i) ==
    /\ callers.pc[i] = "polling"
    /\ callers.retryCount[i] >= MAX_RETRIES
    /\ callers' = [callers EXCEPT !.pc[i] = "failed"]
    /\ UNCHANGED <<streamVars, cacheVars, xlateVars, issued, clientVars, probe, usageVars,
                   sse, other>>

NextRace ==
    \E i \in 1..2 : RaceCall(i) \/ RaceLoad(i) \/ RacePoll(i) \/ RaceTimeout(i)

SpecRace == Init /\ [][NextRace]_vars

\* C17: one discoverProjectId call makes at most 30 onboardUser calls, stops
\* polling at the first answer that is done, and fails when no answer is
\* done; the project id of a done answer is its
\* response.cloudaicompanionProject.id, or "default-project" without one.
C17_PollAtMostThirtyTimes ==
    /\ disc.onboardCalls <= 30
    /\ disc.dones <= 1
    /\ disc.pc = "polling" => disc.dones = 0
    /\ disc.dones = 1 =>
          /\ disc.pc = "idle"
          /\ disc.outcome =
                Returned(IF disc.lroId = "" THEN "default-project" ELSE disc.lroId)
    /\ (disc.pc = "idle" /\ disc.onboardCalls > 0 /\ disc.dones = 0) =>
          disc.outcome = Failed

\* thirty onboardUser calls, none done: the call failed
C17_Witness ==
    /\ disc.pc = "idle"
    /\ disc.onboardCalls = 30
    /\ disc.dones = 0
    /\ disc.outcome = Failed

CacheStore ==
    /\ \E id \in ({probe.stored + 1} \cap 1..MaxIds) \cup ({1} \cap 1..probe.stored) :
       \E signature \in IF id > probe.stored THEN {"S1"} ELSE {"S2"} :
       \E r \in store(l1Cache, db, id, signature, <<"x">>, now) :
          /\ l1Cache' = r.l1
          /\ db' = r.db
          /\ probe' = [op |-> "store", id |-> id,
                       full |-> size(db) >= MAX_CACHE_SIZE,
                       stored |-> IF id > probe.stored THEN id ELSE probe.stored,
                       written |-> {w \in probe.written : w.tool_call_id # id}
                                   \cup {CachedSignature(id, signature, <<"x">>, now)},
                       gone |-> (probe.gone \cup {v.tool_call_id : v \in db \ r.db}) \ {id}]
    /\ UNCHANGED <<streamVars, now, xlateVars, issued, clientVars, usageVars, sse, taskVars>>

\* get(id) of the oldest or the newest id
CacheGet ==
    /\ \E id \in {1, probe.stored} \cap 1..MaxIds :
          /\ l1Cache' = get(l1Cache, db, id).l1
          /\ probe' = [probe EXCEPT !.op = "get", !.id = id, !.full = FALSE]
    /\ UNCHANGED <<streamVars, db, now, xlateVars, issued, clientVars, usageVars, sse, taskVars>>

\* the sweep: cleanup() from setInterval
CacheSweep ==
    /\ now % CLEANUP_INTERVAL_MS = 0
    /\ \E r \in {cleanup(l1Cache, db, now)} :
          /\ l1Cache' = r.l1
          /\ db' = r.db
    /\ probe' = [probe EXCEPT
                    !.op = "sweep", !.id = 0, !.full = FALSE,
                    !.gone = @ \cup {w.tool_call_id : w \in
                                       {x \in probe.written :
                                           x.timestamp < now - CACHE_EXPIRY_MS}}]
    /\ UNCHANGED <<streamVars, now, xlateVars, issued, clientVars, usageVars, sse, taskVars>>

\* clear()
CacheClear ==
    /\ l1Cache' = clear.l1
    /\ db' = clear.db
    /\ probe' = [probe EXCEPT !.op = "clear", !.id = 0, !.full = FALSE,
                              !.gone = {w.tool_call_id : w \in probe.written}]
    /\ UNCHANGED <<streamVars, now, xlateVars, issued, clientVars, usageVars, sse, taskVars>>

\* the process restarts
Restart ==
    /\ \E r \in {restart(db, now)} :
          /\ l1Cache' = r.l1
          /\ db' = r.db
    /\ probe' = [probe EXCEPT
                    !.op = "restart", !.id = 0, !.full = FALSE,
                    !.gone = @ \cup {w.tool_call_id : w \in
                                       {x \in probe.written :
                                           x.timestamp < now - CACHE_EXPIRY_MS}}]
    /\ UNCHANGED <<streamVars, now, xlateVars, issued, clientVars, usageVars, sse, taskVars>>

NextCache == CacheStore \/ CacheGet \/ CacheSweep \/ CacheClear \/ Tick \/ Restart

SpecCache == Init /\ [][NextCache]_vars

\* C19: after store(id, s, t), get(id) returns s and t and has(id) holds
\* until the entry is evicted, expired or cleared; a later store under the
\* same id replaces the earlier one, and the id counts once in size.
C19_GetReturnsLastStore ==
    /\ \A w \in probe.written :
          w.tool_call_id \notin probe.gone =>
             /\ has(l1Cache, db, w.tool_call_id)
             /\ get(l1Cache, db, w.tool_call_id).found
             /\ get(l1Cache, db, w.tool_call_id).entry.signature = w.signature
             /\ get(l1Cache, db, w.tool_call_id).entry.thoughtText = w.thoughtText
    /\ size(db) = Cardinality({r.tool_call_id : r \in db})

\* id 1 stored twice, the second time with another signature, and read
C19_Witness ==
    /\ probe.op = "get"
    /\ probe.id = 1
    /\ probe.stored >= 2
    /\ 1 \notin probe.gone
    /\ \E w \in probe.written :
          w.tool_call_id = 1 /\ w.signature = "S2" /\ w.timestamp > 0
    /\ get(l1Cache, db, 1).entry.signature = "S2"

\* C20: the table never holds more than 10 000 rows, scaled here to
\* MAX_CACHE_SIZE; a store that finds it full removes the tenth of the rows
\* with the smallest timestamps before it inserts, and the key it stored is
\* in the table afterwards. A step is one of store when it leaves "store" in
\* probe.op and the clock as it is; the rows removed are those that left the
\* table, with or without the earlier row of the key stored.
C20_TableStaysWithinMax ==
    /\ [](size(db) <= MAX_CACHE_SIZE)
    /\ [][(size(db) >= MAX_CACHE_SIZE /\ probe'.op = "store" /\ now' = now) =>
             LET old == {r \in db : r.tool_call_id = probe'.id}
                 out == {r \in db \ db' : r.tool_call_id # probe'.id}
             IN /\ size(db) = MAX_CACHE_SIZE
                /\ \E V \in {out, out \cup old} :
                      /\ Cardinality(V) = MAX_CACHE_SIZE \div 10
                      /\ \A v \in V : \A r \in db \ V : v.timestamp <= r.timestamp
                /\ \A r \in db' : r.tool_call_id # probe'.id => r \in db
                /\ \E r \in db' : r.tool_call_id = probe'.id]_vars

\* a store that found the table full
C20_Witness ==
    /\ probe.op = "store"
    /\ probe.full
    /\ probe.gone # {}
    /\ size(db) >= MAX_CACHE_SIZE - MAX_CACHE_SIZE \div 10
    /\ \E r \in db : r.tool_call_id = probe.id

\* ------------------------------------------------------------------------
\* The L1 front under calls with any keys
\* ------------------------------------------------------------------------
\* store(key, "S1", "x") for any key, the empty string (0) included
KeyStore ==
    /\ \E id \in 0..MaxKeys :
       \E r \in store(l1Cache, db, id, "S1", <<"x">>, now) :
          /\ l1Cache' = r.l1
          /\ db' = r.db
          /\ probe' = [probe EXCEPT !.op = "store", !.id = id]
    /\ UNCHANGED <<streamVars, now, xlateVars, issued, clientVars, usageVars, sse, taskVars>>

\* get(key) for any key
KeyGet ==
    /\ \E id \in 0..MaxKeys :
          /\ l1Cache' = get(l1Cache, db, id).l1
          /\ probe' = [probe EXCEPT !.op = "get", !.id = id]
    /\ UNCHANGED <<streamVars, db, now, xlateVars, issued, clientVars, usageVars, sse, taskVars>>

NextL1 == KeyStore \/ KeyGet \/ CacheSweep \/ CacheClear \/ Tick

SpecL1 == Init /\ [][NextL1]_vars

\* the clock in steps of half an hour, so that entries are swept when they
\* are younger than, exactly and older than one hour
HalfHour ==
    /\ now < MaxHalfHours * 3 * CLEANUP_INTERVAL_MS
    /\ now' = now + 3 * CLEANUP_INTERVAL_MS
    /\ UNCHANGED <<streamVars, l1Cache, db, xlateVars, clientVars, probe, usageVars, sse, taskVars, issued>>

NextSweep == KeyStore \/ HalfHour \/ CacheSweep \/ Restart

SpecSweep == Init /\ [][NextSweep]_vars

\* the event streams the upstream may send: envelopes 1 and 2, an envelope
\* that is no JSON, a last envelope without its blank line or without its
\* newline, an envelope of two data lines, lines that are no data lines
SSETexts ==
    LET data(p) == DataPrefix \o p
        nl == <<"\n">>
    IN { data(<<"1">>) \o nl \o nl \o data(<<"2">>) \o nl \o nl,
         data(<<"x">>) \o nl \o nl \o data(<<"2">>) \o nl \o nl,
         data(<<"1">>) \o nl \o nl \o data(<<"2">>) \o nl,
         data(<<"1">>) \o nl \o nl \o data(<<"2">>),
         data(<<"1">>) \o nl \o data(<<"2">>) \o nl \o nl,
         <<":", "c">> \o nl \o data(<<"1", "x">>) \o nl \o <<" ">> \o nl \o data(<<"2">>) \o nl \o nl,
         data(<<"1">>) \o nl \o nl \o data(<<"x">>) \o nl }

\* parseSSEStream(response.body)
SSEStart ==
    /\ sse.pc = "idle"
    /\ \E t \in SSETexts : sse' = [NoParse EXCEPT !.pc = "reading", !.pending = t]
    /\ UNCHANGED <<streamVars, cacheVars, xlateVars, issued, clientVars, probe, usageVars, taskVars>>

\* await reader.read() gives the next bytes, cut anywhere
SSERead ==
    /\ sse.pc = "reading"
    /\ \E n \in 1..Len(sse.pending) :
          sse' = Chunked([sse EXCEPT !.pending = SubSeq(@, n + 1, Len(@)),
                                     !.read = @ \o SubSeq(sse.pending, 1, n)],
                         SubSeq(sse.pending, 1, n))
    /\ UNCHANGED <<streamVars, cacheVars, xlateVars, issued, clientVars, probe, usageVars, taskVars>>

\* await reader.read() gives done
SSEDone ==
    /\ sse.pc = "reading"
    /\ sse.pending = <<>>
    /\ sse' = Finished(sse)
    /\ UNCHANGED <<streamVars, cacheVars, xlateVars, issued, clientVars, probe, usageVars, taskVars>>

NextSSE == SSEStart \/ SSERead \/ SSEDone

SpecSSE == Init /\ [][NextSSE]_vars

\* the stream over a body that is being read
CancelOpen == sse.pc = "reading" /\ streamNo = 0 /\ StartStream({<<>>})

\* the caller stops consuming after a chunk: the generators are returned
\* through the for await loop (line 292) and parseSSEStream (lines 545-577),
\* which have no finally and never call reader.cancel(); the reader is left
\* as it is
Cancel ==
    /\ pc = "streaming"
    /\ chunks # <<>>
    /\ pc' = "cancelled"
    /\ UNCHANGED <<firstChunk, toolCallId, currentThoughtSignature, accumulatedThoughtText,
                   thinkingTagBuffer, insideThinkingTag, chunks, pending, textParts,
                   otherParts, delivered, partsSeen, minted, streamNo, nextUuid,
                   cacheVars, xlateVars, clientVars, probe, usageVars, sse, taskVars, issued>>

NextCancel ==
    \/ SSEStart
    \/ CancelOpen
    \/ ThoughtPart
    \/ FunctionCallPart
    \/ EndStream
    \/ Cancel

SpecCancel == Init /\ [][NextCancel]_vars

\* C21: whatever the calls and the keys, the L1 front holds at most 1 000
\* entries, scaled here to L1_CACHE_SIZE; and a store or get that puts a new
\* key into a full L1 removes the entry that was inserted earliest, the first
\* of the Map, and no other.
C21_L1StaysWithinSize ==
    /\ [](Len(l1Cache) <= L1_CACHE_SIZE)
    /\ [][(/\ Len(l1Cache) >= L1_CACHE_SIZE
           /\ probe'.op \in {"store", "get"}
           /\ now' = now
           /\ ~L1Has(l1Cache, probe'.id)
           /\ L1Has(l1Cache', probe'.id)) =>
             /\ ~L1Has(l1Cache', l1Cache[1].tool_call_id)
             /\ \A i \in 2..Len(l1Cache) : L1Has(l1Cache', l1Cache[i].tool_call_id)]_vars

\* C22: the cache survives a restart of the process: right after it, with L1
\* empty again, get returns every entry that store had written and that was
\* neither evicted nor cleared, with the same signature and thought text,
\* when the entry is not older than one hour.
C22_EntriesSurviveRestart ==
    probe.op = "restart" =>
       /\ l1Cache = <<>>
       /\ \A w \in probe.written :
             (w.tool_call_id \notin probe.gone /\ now - w.timestamp <= CACHE_EXPIRY_MS) =>
                /\ get(l1Cache, db, w.tool_call_id).found
                /\ get(l1Cache, db, w.tool_call_id).entry.signature = w.signature
                /\ get(l1Cache, db, w.tool_call_id).entry.thoughtText = w.thoughtText

\* a restart with id 1 stored twice and still young
C22_Witness ==
    /\ probe.op = "restart"
    /\ now > 0
    /\ \E w \in probe.written :
          /\ w.tool_call_id = 1
          /\ w.signature = "S2"
          /\ w.timestamp = now
          /\ 1 \notin probe.gone
    /\ get(l1Cache, db, 1).entry.signature = "S2"

\* C23: an entry lives until its TTL of one hour expires: whenever has(id)
\* holds, the entry get(id) returns is at most one hour old.
C23_NoEntryOlderThanTTL ==
    \A id \in 1..MaxIds :
       has(l1Cache, db, id) =>
          now - get(l1Cache, db, id).entry.timestamp <= CACHE_EXPIRY_MS

\* ------------------------------------------------------------------------
\* Tags cut across visible text parts
\* ------------------------------------------------------------------------
\* the visible text part a step has just consumed
PartOf(before, after) == SubSeq(after, Len(before) + 1, Len(after))

\* C24: outside a thinking block, when a part ended with a proper prefix of
\* the opening tag and the next part completes the tag, the tag is
\* recognised: the block is open after that part and none of the tag's
\* characters is emitted as content.
C24_CutOpeningTagRecognised ==
    [][(/\ pc = "streaming"
        /\ ~insideThinkingTag
        /\ thinkingTagBuffer # <<>>
        /\ delivered' # delivered
        /\ IndexOf(thinkingTagBuffer \o PartOf(delivered, delivered'), OpenTag) = 0
        /\ IndexOf(PartOf(delivered, delivered'), CloseTag) = -1) =>
          /\ insideThinkingTag'
          /\ ContentOut(chunks') = ContentOut(chunks)]_vars

\* C25: inside a thinking block, when the closing tag is completed by a part
\* that does not hold it whole, the block ends with that part, the interior
\* without any tag character is emitted as one reasoning delta and appended
\* to the accumulated thought text, and the text after the tag is emitted
\* as content.
C25_CutClosingTagRecognised ==
    [][(/\ pc = "streaming"
        /\ insideThinkingTag
        /\ delivered' # delivered
        /\ IndexOf(PartOf(delivered, delivered'), CloseTag) = -1
        /\ IndexOf(PartOf(delivered, delivered'), OpenTag) = -1
        /\ IndexOf(thinkingTagBuffer \o PartOf(delivered, delivered'), CloseTag) # -1) =>
          LET all == thinkingTagBuffer \o PartOf(delivered, delivered')
              closeIndex == IndexOf(all, CloseTag)
              interior == Substring(all, 0, closeIndex)
              after == SubstringFrom(all, closeIndex + Len(CloseTag))
          IN /\ ~insideThinkingTag'
             /\ ThinkingOut(chunks') = ThinkingOut(chunks) \o interior
             /\ accumulatedThoughtText' = accumulatedThoughtText \o interior
             /\ ContentOut(chunks') \o thinkingTagBuffer' = ContentOut(chunks) \o after]_vars

\* C26: a withheld prefix that does not start a tag is emitted as content
\* with the text that follows it: while the visible text holds no opening
\* tag, the content emitted so far followed by the prefix still withheld is
\* the text delivered so far and nothing is emitted as reasoning; and the
\* reasoning deltas never hold a character that came before the first
\* opening tag.
C26_WithheldPrefixEmittedOnce ==
    /\ IndexOf(delivered, OpenTag) = -1 =>
          /\ ThinkingOut(chunks) = <<>>
          /\ ContentOut(chunks) \o thinkingTagBuffer = delivered
    /\ IndexOf(delivered, OpenTag) # -1 =>
          IsSubsequence(ThinkingOut(chunks),
                        SubstringFrom(delivered, IndexOf(delivered, OpenTag) + Len(OpenTag)))

\* ------------------------------------------------------------------------
\* Order of signature capture
\* ------------------------------------------------------------------------
\* the part a step has just consumed
LastPart(ps) == ps[Len(ps)]

\* C27: the signature of a thought part always replaces the current one; the
\* signature of a functionCall part is adopted only when none was captured
\* before; at a functionCall part with a known signature the entry stored
\* for the freshly minted id is the current signature with all the reasoning
\* text the stream has emitted so far, and without a known signature the
\* cache is left as it was.
C27_SignatureCaptureOrder ==
    [][Len(partsSeen') = Len(partsSeen) + 1 =>
          /\ (LastPart(partsSeen').kind = "thought" /\ LastPart(partsSeen').sig # "") =>
                currentThoughtSignature' = LastPart(partsSeen').sig
          /\ (LastPart(partsSeen').kind = "thought" /\ LastPart(partsSeen').sig = "") =>
                currentThoughtSignature' = currentThoughtSignature
          /\ LastPart(partsSeen').kind = "functionCall" =>
                /\ currentThoughtSignature' =
                      IF currentThoughtSignature = "" THEN LastPart(partsSeen').sig
                      ELSE currentThoughtSignature
                /\ toolCallId' = nextUuid
                /\ IF currentThoughtSignature' # ""
                   THEN /\ has(l1Cache', db', toolCallId')
                        /\ CachedSignatureOf(toolCallId)' = currentThoughtSignature'
                        /\ CachedThoughtTextOf(toolCallId)' = ThinkingOut(chunks)
                   ELSE /\ l1Cache' = l1Cache
                        /\ db' = db]_vars

\* a functionCall part with its own signature arrives after two thought
\* parts, the second signed differently: the id is stored with the thought
\* signature and both thought texts
C27_Witness ==
    /\ Len(partsSeen) >= 3
    /\ LastPart(partsSeen).kind = "functionCall"
    /\ LastPart(partsSeen).sig = "S1"
    /\ partsSeen[Len(partsSeen) - 1] = [kind |-> "thought", sig |-> "S2"]
    /\ partsSeen[Len(partsSeen) - 2].kind = "thought"
    /\ currentThoughtSignature = "S2"
    /\ CachedSignatureOf(toolCallId) = "S2"
    /\ Len(CachedThoughtTextOf(toolCallId)) = 2

\* ------------------------------------------------------------------------
\* Usage on the terminal chunk
\* ------------------------------------------------------------------------
\* a count of a usageMetadata, 0 when it is missing
CountOf(c) == IF c = Absent THEN 0 ELSE c[1]

\* C28: no non-terminal chunk carries usage; the terminal chunk carries
\* usage exactly when an envelope of the stream had usageMetadata, with the
\* counts of the last such envelope, a missing count read as 0 and the total
\* being the sum of the two.
C28_UsageOfLastEnvelope ==
    \A i \in 1..Len(chunks) :
       IF chunks[i].finish_reason = "null"
       THEN chunks[i].usage = Absent
       ELSE IF usageSeen = <<>>
       THEN chunks[i].usage = Absent
       ELSE LET last == usageSeen[Len(usageSeen)]
            IN /\ chunks[i].usage # Absent
               /\ chunks[i].usage[1].prompt_tokens = CountOf(last.promptTokenCount)
               /\ chunks[i].usage[1].completion_tokens = CountOf(last.candidatesTokenCount)
               /\ chunks[i].usage[1].total_tokens =
                     CountOf(last.promptTokenCount) + CountOf(last.candidatesTokenCount)

\* a finished stream with a tool call whose second usageMetadata lacks the
\* prompt count
C28_Witness ==
    /\ pc = "done"
    /\ Len(chunks) >= 2
    /\ Len(usageSeen) = 2
    /\ usageSeen[1] = [promptTokenCount |-> Some(1), candidatesTokenCount |-> Some(2)]
    /\ usageSeen[2] = [promptTokenCount |-> Absent, candidatesTokenCount |-> Some(2)]
    /\ chunks[Len(chunks)].finish_reason = "tool_calls"
    /\ chunks[Len(chunks)].usage = Some([prompt_tokens |-> 0, completion_tokens |-> 2,
                                         total_tokens |-> 2])

\* ------------------------------------------------------------------------
\* Reasoning field aliases
\* ------------------------------------------------------------------------
\* the alias pairs of a message in their priority
AliasGroups(m) ==
    << [text |-> m.thinking, signature |-> m.signature],
       [text |-> m.cot_summary, signature |-> m.cot_id],
       [text |-> m.reasoning_text, signature |-> m.reasoning_opaque] >>

\* the first pair with a non-empty member, the empty pair when there is none
FirstNonEmptyGroup(m) ==
    LET gs == AliasGroups(m)
        ks == {k \in 1..3 : gs[k].text # <<>> \/ gs[k].signature # ""}
    IN IF ks = {} THEN [text |-> <<>>, signature |-> ""]
       ELSE gs[CHOOSE k \in ks : \A j \in ks : k <= j]

\* C29: the signature and the thought text of an assistant message are read
\* from the same alias pair, the first non-empty one in the priority
\* (thinking, signature), (cot_summary, cot_id), (reasoning_text,
\* reasoning_opaque): the thought part of the turn, present when that pair
\* has a text, is made of that pair, and the functionCall parts carry its
\* signature.
C29_ReasoningFromOneAliasPair ==
    (Len(xin.messages) = 1 /\ ~xout.throws) =>
       LET g == FirstNonEmptyGroup(XMsg)
           parts == XTurn.parts
       IN /\ (g.text # <<>>) <=> (parts # <<>> /\ parts[1].thought)
          /\ \A i \in 1..Len(parts) :
                /\ parts[i].thought => parts[i] = ThoughtPartG(g.text, g.signature)
                /\ parts[i].kind = "functionCall" => parts[i].thought_signature = g.signature

\* ------------------------------------------------------------------------
\* The cache against the message's own signature
\* ------------------------------------------------------------------------
\* index of the first tool call of the message whose entry was live
FirstLive == CHOOSE i \in 1..Len(XToolCalls) :
                /\ Live(XToolCalls[i].id)
                /\ \A j \in 1..(i - 1) : ~Live(XToolCalls[j].id)

\* C30: when an assistant message carries a signature of its own and one of
\* its tool_call ids hits the cache, the entry of the first tool call that
\* hits overrides it: the thought part and every functionCall part of the
\* turn carry the cached signature, and the cache is left as that one
\* lookup leaves it, no later tool call being looked up.
C30_FirstCacheHitOverrides ==
    (/\ Len(xin.messages) = 1
     /\ XMsg.role = "assistant"
     /\ XMsg.signature # ""
     /\ \E i \in 1..Len(XToolCalls) : Live(XToolCalls[i].id)) =>
       LET cached == get(xin.l1, xin.db, XToolCalls[FirstLive].id)
       IN /\ l1Cache = cached.l1
          /\ \A k \in 1..Len(xout.contents) :
                \A i \in 1..Len(xout.contents[k].parts) :
                   (xout.contents[k].parts[i].thought
                    \/ xout.contents[k].parts[i].kind = "functionCall") =>
                      xout.contents[k].parts[i].thought_signature = cached.entry.signature

\* a message with signature "M" and thinking "m" whose two tool calls both
\* hit, the second one in the table only: the turn carries the signature
\* cached for the first
C30_Witness ==
    /\ Len(xin.messages) = 1
    /\ XMsg.signature = "M"
    /\ ~xout.throws
    /\ Len(XToolCalls) = 2
    /\ Live(XToolCalls[1].id)
    /\ Live(XToolCalls[2].id)
    /\ ~L1Has(xin.l1, XToolCalls[2].id)
    /\ get(xin.l1, xin.db, XToolCalls[1].id).entry.signature = "S2"
    /\ get(xin.l1, xin.db, XToolCalls[2].id).entry.signature = "S1"
    /\ XTurn.parts[1] = ThoughtPartG(<<"m">>, "S2")
    /\ XTurn.parts[Len(XTurn.parts)].thought_signature = "S2"

\* ------------------------------------------------------------------------
\* The streaming fallback
\* ------------------------------------------------------------------------
\* C31: a streaming fallback starts only while the call has yielded no
\* chunk, and the chunks after a fallback come from a new client: the first
\* data chunk of the fallback stream carries role "assistant".
C31_FallbackBeforeFirstChunk ==
    /\ [][(cout'.fallbacks # cout.fallbacks /\ cout'.fallbacks # <<>>) => chunks' = <<>>]_vars
    /\ []((/\ cin.op = "streamContent"
           /\ cout.fallbacks # <<>>
           /\ chunks # <<>>
           /\ chunks[1].finish_reason = "null") => chunks[1].delta.role = "assistant")

\* a second call on a client that has streamed before falls back and the
\* fallback stream has yielded a reasoning chunk with the role
C31_Witness ==
    /\ streamNo = 2
    /\ ~firstChunk
    /\ cin.op = "streamContent"
    /\ Len(cout.fallbacks) = 1
    /\ pc = "streaming"
    /\ Len(chunks) = 1
    /\ chunks[1].delta.thinking # Absent
    /\ chunks[1].delta.role = "assistant"

\* ------------------------------------------------------------------------
\* The sweep
\* ------------------------------------------------------------------------
\* the entry is older than one hour at time t
Expired(e, t) == t - e.timestamp > CACHE_EXPIRY_MS

\* C32: a sweep, periodic or at startup, removes from the L1 front and from
\* the durable store exactly the entries with now - timestamp > 1 hour and
\* leaves every other entry as it was; at startup the L1 front is empty.
C32_SweepRemovesExactlyExpired ==
    [][(probe'.op \in {"sweep", "restart"} /\ now' = now) =>
          /\ db' = {r \in db : ~Expired(r, now)}
          /\ l1Cache' = IF probe'.op = "restart" THEN <<>>
                        ELSE SelectSeq(l1Cache, LAMBDA e : ~Expired(e, now))]_vars

\* a sweep has just removed an entry of ninety minutes and kept one of
\* exactly one hour and a younger one
C32_Witness ==
    /\ probe.op = "sweep"
    /\ now = 9 * CLEANUP_INTERVAL_MS
    /\ \E r \in db : r.timestamp = 3 * CLEANUP_INTERVAL_MS /\ L1Has(l1Cache, r.tool_call_id)
    /\ \E r \in db : r.timestamp = 6 * CLEANUP_INTERVAL_MS
    /\ \A r \in db : r.timestamp > 0
    /\ Cardinality(db) = 2

\* ------------------------------------------------------------------------
\* The SSE parser
\* ------------------------------------------------------------------------
\* the envelopes of a list of lines: data lines add their payload to the
\* envelope, a blank line ends it, and it counts when it is JSON; atEnd says
\* whether the envelope left open by the last line counts as well
RECURSIVE EnvelopesOf(_, _, _)
EnvelopesOf(lines, acc, atEnd) ==
    IF lines = <<>> THEN (IF atEnd /\ JSONValid(acc) THEN <<acc>> ELSE <<>>)
    ELSE IF Trim(Head(lines)) = <<>>
    THEN (IF JSONValid(acc) THEN <<acc>> ELSE <<>>) \o EnvelopesOf(Tail(lines), <<>>, atEnd)
    ELSE IF StartsWith(Head(lines), DataPrefix)
    THEN EnvelopesOf(Tail(lines), acc \o SubstringFrom(Head(lines), Len(DataPrefix)), atEnd)
    ELSE EnvelopesOf(Tail(lines), acc, atEnd)

\* the lines of a text that are terminated by a newline
TerminatedLines(text) == SubSeq(Split(text), 1, Len(Split(text)) - 1)

\* C33: an envelope whose payload is no JSON is skipped and the parser goes
\* on: while the stream is read, the envelopes yielded are exactly the
\* well-formed envelopes among those the lines read so far have ended, in
\* order, and after a blank line the accumulator is empty.
C33_BadEnvelopeSkipped ==
    sse.pc = "reading" =>
       /\ sse.out = EnvelopesOf(TerminatedLines(sse.read), <<>>, FALSE)
       /\ (Len(sse.read) >= 2 /\ SubSeq(sse.read, Len(sse.read) - 1, Len(sse.read)) = <<"\n", "\n">>)
             => sse.objectBuffer = <<>>

\* the envelope "x" was skipped and the envelope 2 after it was yielded
C33_Witness ==
    /\ sse.pc = "reading"
    /\ sse.pending = <<>>
    /\ StartsWith(sse.read, DataPrefix \o <<"x", "\n", "\n">>)
    /\ sse.out = << <<"2">> >>
    /\ sse.objectBuffer = <<>>

\* C34: when the stream ends, the envelope left open by the last lines is
\* parsed and yielded once, whether or not the last data line ends with a
\* newline, and the envelopes yielded are those of the whole text however
\* it was cut into reads.
C34_LastEnvelopeYielded ==
    sse.pc = "done" => sse.out = EnvelopesOf(Split(sse.read), <<>>, TRUE)

\* ------------------------------------------------------------------------
\* Cancellation
\* ------------------------------------------------------------------------
\* C35: when the caller stops consuming the stream, no further chunk and no
\* terminal chunk is emitted, the reader of the upstream response is
\* cancelled, and every thought signature observed so far is in the
\* signature cache.
C35_CancelClosesUpstream ==
    pc = "cancelled" =>
       /\ TerminalChunks = {}
       /\ sse.pc = "cancelled"
       /\ \A S \in SigsAt(1..Len(partsSeen)) : \E r \in db : r.signature = S

\* ------------------------------------------------------------------------
\* The splitter buffer at the end of the stream
\* ------------------------------------------------------------------------
\* the number of characters emitted in content and reasoning deltas
Emitted(cs) == Len(ContentOut(cs)) + Len(ThinkingOut(cs))

\* C36: when the upstream stream ends, the text still held in
\* thinkingTagBuffer, a trailing partial tag or the interior of a block that
\* was never closed, is emitted in a delta before the terminal chunk, and
\* the buffer is empty when the terminal chunk is emitted.
C36_BufferFlushedAtEnd ==
    [][(pc = "streaming" /\ pc' = "done") =>
          /\ thinkingTagBuffer' = <<>>
          /\ Emitted(chunks') = Emitted(chunks) + Len(thinkingTagBuffer)]_vars

\* ------------------------------------------------------------------------
\* Coherence of the two levels of the cache
\* ------------------------------------------------------------------------
\* C37: every key of the L1 front is in the durable store with the same
\* signature, thought text and timestamp; hence an id for which has holds is
\* counted by size, and get returns no entry that the store has evicted.
C37_L1WithinStore ==
    /\ \A i \in 1..Len(l1Cache) : l1Cache[i] \in db
    /\ \A id \in 1..MaxIds :
          get(l1Cache, db, id).found => get(l1Cache, db, id).entry \in db

\* C38: a handshake that fails, by an upstream error on loadCodeAssist or on
\* onboardUser or by the thirty polls ending with no done answer, makes
\* discoverProjectId raise and leaves the cached project id unset, and the
\* next call on the client runs the handshake again from its start.
C38_FailedHandshakeNotCached ==
    /\ disc.status \notin {0, 200} => (disc.pc = "idle" /\ disc.outcome = Failed)
    /\ (disc.pc = "idle" /\ disc.retryCount >= MAX_RETRIES) => disc.outcome = Failed
    /\ disc.outcome = Failed => projectId = ""
    /\ disc.retried =>
          /\ disc.loadCalls = 1
          /\ disc.retryCount <= disc.onboardCalls
          /\ disc.pc = "idle" => disc.outcome # NoOutcome

\* a call made after a failed one ran the handshake and polled to a done
\* answer
C38_Witness ==
    /\ disc.retried
    /\ disc.pc = "idle"
    /\ disc.loadCalls = 1
    /\ disc.onboardCalls = 2
    /\ disc.outcome = Returned("q")
    /\ projectId = "q"

\* C40: when discoverProjectId is called twice concurrently on a client with
\* no configured and no cached project id, loadCodeAssist is called at most
\* once in total and both calls return the same project id.
C40_HandshakeOnce ==
    /\ callers.loadCalls <= 1
    /\ (callers.pc[1] = "returned" /\ callers.pc[2] = "returned") =>
          callers.result[1] = callers.result[2]

\* the current signature after the first p parts of a stream: the signature
\* of a thought part replaces it, that of a functionCall part fills it
RECURSIVE SignatureAt(_, _)
SignatureAt(ps, p) ==
    IF p = 0 THEN ""
    ELSE IF ps[p].kind = "thought" /\ ps[p].sig # "" THEN ps[p].sig
    ELSE IF ps[p].kind = "functionCall" /\ SignatureAt(ps, p - 1) = "" THEN ps[p].sig
    ELSE SignatureAt(ps, p - 1)

\* the reasoning text a stream has emitted before its tool call id
ThoughtBefore(cs, id) ==
    ThinkingOut(SubSeq(cs, 1,
        (CHOOSE i \in 1..Len(cs) : /\ cs[i].delta.tool_calls # <<>>
                                    /\ cs[i].delta.tool_calls[1].id = id) - 1))

\* what the cache holds for the ids minted by a stream with parts ps, mints
\* ms and chunks cs follows from ps and cs alone
IsolatedStream(ps, ms, cs) ==
    \A k \in 1..Len(ms) :
       IF SignatureAt(ps, ms[k].pos) = ""
       THEN ~has(l1Cache, db, ms[k].id)
       ELSE /\ CachedSignatureOf(ms[k].id) = SignatureAt(ps, ms[k].pos)
            /\ CachedThoughtTextOf(ms[k].id) = ThoughtBefore(cs, ms[k].id)

\* C39: when two streams are interleaved, on two clients or on one, the
\* signature and thought text cached for a tool-call id minted by one stream
\* follow from the parts of that stream alone, and the splitter state of a
\* stream is what that stream left: unchanged while the other runs, and found
\* again when it resumes.
C39_StreamIsolation ==
    /\ [](other.no # 0 =>
            /\ IsolatedStream(partsSeen, minted, chunks)
            /\ IsolatedStream(other.partsSeen, other.minted, other.chunks))
    /\ [][other.no # 0 =>
            IF other'.no # other.no
            THEN /\ thinkingTagBuffer' = other.thinkingTagBuffer
                 /\ insideThinkingTag' = other.insideThinkingTag
                 /\ other'.thinkingTagBuffer = thinkingTagBuffer
                 /\ other'.insideThinkingTag = insideThinkingTag
            ELSE /\ other'.thinkingTagBuffer = other.thinkingTagBuffer
                 /\ other'.insideThinkingTag = other.insideThinkingTag]_vars

\* two streams on one client, each with a tool call: one cached with the
\* signature of its functionCall part and no reasoning, the other with the
\* signature and text of its thought part
C39_Witness ==
    /\ other.no # 0
    /\ other.sameClient
    /\ Len(minted) = 1
    /\ Len(other.minted) = 1
    /\ partsSeen = <<[kind |-> "functionCall", sig |-> "S1"]>>
    /\ CachedSignatureOf(minted[1].id) = "S1"
    /\ CachedThoughtTextOf(minted[1].id) = <<>>
    /\ CachedSignatureOf(other.minted[1].id) = "S2"
    /\ Len(CachedThoughtTextOf(other.minted[1].id)) = 1
    /\ other.partsSeen[1] = [kind |-> "thought", sig |-> "S2"]

====
